---------------------------- MODULE Spec2Model ----------------------------
(***************************************************************************)
(* Workflow-graph core of n8n-flow-maker-rag: the node type registry       *)
(* (node_schemas.py), the structural validator (validation_service.py),    *)
(* the quality scorer (quality_validator.py) and the refinement pipeline   *)
(* (enhanced_workflow_generator.py).                                       *)
(*                                                                         *)
(* Representation of Python values:                                        *)
(*   dict        a function with string keys (a record); {} is EmptyDict   *)
(*   list        a sequence                                                *)
(*   Optional    <<>> for None, <<v>> for a value v                        *)
(*   key in d    key \in DOMAIN d                                          *)
(*   a / b >= p/q   q * a >= p * b  (b > 0; exact for the sizes used here) *)
(*   an exception leaving a function: an outcome record with raised = TRUE *)
(***************************************************************************)
EXTENDS Integers, Sequences, FiniteSets, TLC

VARIABLES
    \* ---- one run of EnhancedWorkflowGenerator.generate ----
    pc,             \* position of the run
    complexity,     \* argument `complexity`
    prompt,         \* local `prompt`: the instruction and the feedback blocks appended to it
    attempt,        \* loop variable `attempt` (0-based)
    raw_workflow,   \* Optional: what _generate_workflow returned in this attempt
    workflow,       \* Optional: the graph being repaired (the object raw_workflow refers to)
    stage,          \* number of repair stages of _validate_and_refine completed in this attempt
    quality_result, \* Optional: what quality_validator.validate returned in this attempt
    best_workflow,  \* Optional: local `best_workflow`
    best_score,     \* local `best_score`
    result,         \* Optional: the dict returned to the caller
    uuids,          \* number of uuid.uuid4() values drawn so far
    requests,       \* history: number of calls of _generate_workflow
    history,        \* history: per attempt, what happened (candidate, repaired graph, score)
    \* ---- ValidationService.validate_workflow on a WorkflowJSON ----
    vwf,            \* the WorkflowJSON under validation
    vres,           \* Optional: the ValidationResult of vwf
    vexc,           \* Optional: the exception that left the validating caller
    vprev,          \* Optional: the ValidationResult before the last node was added
    vadded,         \* Optional: the node added last
    \* ---- repeated calls of _validate_and_refine on one graph ----
    rorig,          \* the graph before the first call
    rwf,            \* the graph now
    rfirst,         \* Optional: the graph after the first call
    rpasses,        \* number of calls made
    ruuids,         \* number of uuid.uuid4() values drawn so far
    \* ---- NodeSchemaValidator.validate_node on one node ----
    nnode,          \* the node
    nres,           \* Optional: what validate_node returned for it
    \* ---- QualityValidator.validate / generate_feedback on one graph ----
    sgraph,         \* the graph
    stier,          \* argument `complexity`
    sres,           \* Optional: the outcome of validate(sgraph, stier)
    sfeedback,      \* Optional: the outcome of generate_feedback(sres)
    sprev,          \* Optional: the outcome of validate before a binding was added
    sbound,         \* Optional: the place of the node that got a binding
    \* ---- two calls of EnhancedWorkflowGenerator.generate in progress ----
    runs,           \* the locals of each call
    shared,         \* the attributes of the singleton registry and scorer
    \* ---- calls of WorkflowGenerator.generate on one builder ----
    wgen,           \* the attributes of the WorkflowGenerator instance
    bcalls,         \* history: per call, the requirements and the outcome
    buuids          \* number of uuid.uuid4() values drawn so far

vars == <<pc, complexity, prompt, attempt, raw_workflow, workflow, stage,
          quality_result, best_workflow, best_score, result, uuids, requests,
          history, vwf, vres, vexc, vprev, vadded, rorig, rwf, rfirst, rpasses, ruuids,
          nnode, nres, sgraph, stier, sres, sfeedback, sprev, sbound, runs, shared,
          wgen, bcalls, buuids>>

pipeVars == <<pc, complexity, prompt, attempt, raw_workflow, workflow, stage,
              quality_result, best_workflow, best_score, result, uuids,
              requests, history>>

valVars == <<vwf, vres, vexc, vprev, vadded>>

repVars == <<rorig, rwf, rfirst, rpasses, ruuids>>

nodeVars == <<nnode, nres>>

\* the state of the calls of single functions
scoreVars == <<sgraph, stier, sres, sfeedback, sprev, sbound>>

concVars == <<runs, shared>>

buildVars == <<wgen, bcalls, buuids>>

unitVars == <<nodeVars, scoreVars, concVars, buildVars>>

-----------------------------------------------------------------------------
(* Python helpers *)

EmptyDict == [k \in {} |-> 0]

None == <<>>

Some(v) == <<v>>

\* F applied to the value of x, with x evaluated once
With(x, F(_)) == CHOOSE r \in { F(v) : v \in {x} } : TRUE

Has(d, k) == k \in DOMAIN d

\* d.get(k, default)
Get(d, k, default) == IF k \in DOMAIN d THEN d[k] ELSE default

\* d[k] = v on a dict (key added or overwritten)
Put(d, k, v) ==
    With(d, LAMBDA dd : [x \in DOMAIN dd \cup {k} |-> IF x = k THEN v ELSE dd[x]])

\* [f(x) for x in s]
MapSeq(s, f(_)) == With(s, LAMBDA ss : [i \in 1..Len(ss) |-> f(ss[i])])

\* len([x for x in s if test(x)])
CountSeq(s, test(_)) ==
    With(s, LAMBDA ss : Cardinality({ i \in 1..Len(ss) : test(ss[i]) }))

\* any(test(x) for x in s)
AnySeq(s, test(_)) == \E ss \in {s} : \E i \in 1..Len(ss) : test(ss[i])

RECURSIVE FlattenSeq(_)
\* concatenation of a list of lists
FlattenSeq(ss) == IF ss = <<>> THEN <<>> ELSE Head(ss) \o FlattenSeq(Tail(ss))

Max(a, b) == IF a >= b THEN a ELSE b

-----------------------------------------------------------------------------
(* Node type tags.  TLC strings are atomic, so str.startswith, str.endswith *)
(* and the substring tests of the code are tabulated over the type tags    *)
(* the model uses: every key of the registry and two unregistered tags.    *)

StickyNoteType == "n8n-nodes-base.stickyNote"

RegisteredTypes ==
    { "n8n-nodes-base.httpRequest", "@blotato/n8n-nodes-blotato.blotato",
      "n8n-nodes-base.openAi", "@n8n/n8n-nodes-langchain.agent",
      "@n8n/n8n-nodes-langchain.chatOpenAi", "n8n-nodes-base.if",
      "n8n-nodes-base.switch", "n8n-nodes-base.merge", "n8n-nodes-base.set",
      "n8n-nodes-base.code", "n8n-nodes-base.function",
      "n8n-nodes-base.googleSheets", "n8n-nodes-base.gmail",
      "n8n-nodes-base.slack", "n8n-nodes-base.postgres", "n8n-nodes-base.mysql",
      "n8n-nodes-base.webhook", "n8n-nodes-base.scheduleTrigger",
      "n8n-nodes-base.manualTrigger", "n8n-nodes-base.stickyNote",
      "n8n-nodes-base.wait", "n8n-nodes-base.errorTrigger",
      "@n8n/n8n-nodes-langchain.toolHackerNews", "n8n-nodes-base.perplexity" }

\* tags that are no key of the registry
UnregisteredTypes == { "n8n-nodes-base.telegram", "@vendor/n8n-nodes-crm.crm" }

\* node_type.endswith('Trigger')
EndsWithTrigger(t) ==
    t \in { "n8n-nodes-base.scheduleTrigger", "n8n-nodes-base.manualTrigger",
            "n8n-nodes-base.errorTrigger" }

\* node.type.startswith('n8n-nodes-base.')
StartsWithBase(t) ==
    t \in { "n8n-nodes-base.httpRequest", "n8n-nodes-base.openAi",
            "n8n-nodes-base.if", "n8n-nodes-base.switch", "n8n-nodes-base.merge",
            "n8n-nodes-base.set", "n8n-nodes-base.code", "n8n-nodes-base.function",
            "n8n-nodes-base.googleSheets", "n8n-nodes-base.gmail",
            "n8n-nodes-base.slack", "n8n-nodes-base.postgres",
            "n8n-nodes-base.mysql", "n8n-nodes-base.webhook",
            "n8n-nodes-base.scheduleTrigger", "n8n-nodes-base.manualTrigger",
            "n8n-nodes-base.stickyNote", "n8n-nodes-base.wait",
            "n8n-nodes-base.errorTrigger", "n8n-nodes-base.perplexity",
            "n8n-nodes-base.telegram", "n8n-nodes-base.emailReadImap" }

\* 'ai' in t.lower() or 'openai' in t.lower()   (gmail, wait, emailReadImap and
\* langchain hold "ai")
ContainsAi(t) ==
    t \in { "n8n-nodes-base.openAi", "@n8n/n8n-nodes-langchain.agent",
            "@n8n/n8n-nodes-langchain.chatOpenAi", "n8n-nodes-base.gmail",
            "n8n-nodes-base.wait", "@n8n/n8n-nodes-langchain.toolHackerNews",
            "n8n-nodes-base.emailReadImap" }

\* node.get('type', ''), and node.get('type') with None read as '' (neither is a
\* registry key nor equal to any tag the code compares with)
TypeOf(node) == Get(node, "type", "")

-----------------------------------------------------------------------------
(* Node Type Registry: NodeSchemaValidator._load_schemas.  The keys        *)
(* 'optional' and 'typical_config' are read by no check and are left out.  *)

Schemas ==
    [t \in RegisteredTypes |->
      CASE t = "n8n-nodes-base.httpRequest" ->
             [required |-> <<"method", "url">>, requires_credentials |-> FALSE,
              error_handling_recommended |-> TRUE]
        [] t = "@blotato/n8n-nodes-blotato.blotato" ->
             [required |-> <<"resource">>, requires_credentials |-> TRUE,
              credential_type |-> "blotatoApi", error_handling_recommended |-> TRUE]
        [] t = "n8n-nodes-base.openAi" ->
             [required |-> <<"resource", "operation">>, requires_credentials |-> TRUE,
              credential_type |-> "openAiApi"]
        [] t = "@n8n/n8n-nodes-langchain.agent" ->
             [required |-> <<"promptType">>, requires_credentials |-> FALSE,
              error_handling_recommended |-> FALSE]
        [] t = "@n8n/n8n-nodes-langchain.chatOpenAi" ->
             [required |-> <<>>, requires_credentials |-> TRUE,
              credential_type |-> "openAiApi"]
        [] t = "n8n-nodes-base.if" ->
             [required |-> <<"conditions">>, requires_credentials |-> FALSE]
        [] t = "n8n-nodes-base.switch" ->
             [required |-> <<"mode">>, requires_credentials |-> FALSE]
        [] t = "n8n-nodes-base.merge" ->
             [required |-> <<>>, requires_credentials |-> FALSE]
        [] t = "n8n-nodes-base.set" ->
             [required |-> <<>>, requires_credentials |-> FALSE]
        [] t = "n8n-nodes-base.code" ->
             [required |-> <<"mode">>, requires_credentials |-> FALSE]
        [] t = "n8n-nodes-base.function" ->
             [required |-> <<"functionCode">>, requires_credentials |-> FALSE]
        [] t = "n8n-nodes-base.googleSheets" ->
             [required |-> <<"resource", "operation">>, requires_credentials |-> TRUE,
              credential_type |-> "googleSheetsOAuth2Api",
              error_handling_recommended |-> TRUE]
        [] t = "n8n-nodes-base.gmail" ->
             [required |-> <<"resource", "operation">>, requires_credentials |-> TRUE,
              credential_type |-> "gmailOAuth2", error_handling_recommended |-> TRUE]
        [] t = "n8n-nodes-base.slack" ->
             [required |-> <<"resource", "operation">>, requires_credentials |-> TRUE,
              credential_type |-> "slackApi", error_handling_recommended |-> TRUE]
        [] t = "n8n-nodes-base.postgres" ->
             [required |-> <<"operation">>, requires_credentials |-> TRUE,
              credential_type |-> "postgres", error_handling_recommended |-> TRUE]
        [] t = "n8n-nodes-base.mysql" ->
             [required |-> <<"operation">>, requires_credentials |-> TRUE,
              credential_type |-> "mySql", error_handling_recommended |-> TRUE]
        [] t = "n8n-nodes-base.webhook" ->
             [required |-> <<>>, requires_credentials |-> FALSE]
        [] t = "n8n-nodes-base.scheduleTrigger" ->
             [required |-> <<>>, requires_credentials |-> FALSE]
        [] t = "n8n-nodes-base.manualTrigger" ->
             [required |-> <<>>, requires_credentials |-> FALSE]
        [] t = "n8n-nodes-base.stickyNote" ->
             [required |-> <<>>, requires_credentials |-> FALSE]
        [] t = "n8n-nodes-base.wait" ->
             [required |-> <<"resume">>, requires_credentials |-> FALSE]
        [] t = "n8n-nodes-base.errorTrigger" ->
             [required |-> <<>>, requires_credentials |-> FALSE]
        [] t = "@n8n/n8n-nodes-langchain.toolHackerNews" ->
             [required |-> <<>>, requires_credentials |-> FALSE]
        [] t = "n8n-nodes-base.perplexity" ->
             [required |-> <<"operation">>, requires_credentials |-> TRUE,
              credential_type |-> "perplexityApi"]]

\* self.schemas.get(node_type, {})
SchemaOf(t) == IF t \in DOMAIN Schemas THEN Schemas[t] ELSE EmptyDict

\* NodeSchemaValidator.requires_credentials
requires_credentials(t) == Get(SchemaOf(t), "requires_credentials", FALSE)

\* NodeSchemaValidator.get_credential_type; None is read as "" (both are falsy
\* and neither is a credential kind)
get_credential_type(t) == Get(SchemaOf(t), "credential_type", "")

\* NodeSchemaValidator.needs_error_handling
needs_error_handling(t) == Get(SchemaOf(t), "error_handling_recommended", FALSE)

\* mutant: any credentials entry satisfies the requirement, whatever its kind
validate_node_AnyBinding(node) ==
    LET node_type == TypeOf(node)
        schema == SchemaOf(node_type)
        params == Get(node, "parameters", EmptyDict)
        required == Get(schema, "required", <<>>)
        missing == SelectSeq(required, LAMBDA p : p \notin DOMAIN params)
        e1 == MapSeq(missing, LAMBDA p : <<"Missing required parameter: ", p>>)
        e2 == IF required # <<>> /\ DOMAIN params = {}
              THEN << <<"Parameters object is empty but required parameters are needed", "">> >>
              ELSE <<>>
        cred_type == Get(schema, "credential_type", "")
        e3 == IF Get(schema, "requires_credentials", FALSE)
              THEN IF ~Has(node, "credentials")
                   THEN << <<"Missing credentials configuration", "">> >>
                   ELSE <<>>
              ELSE <<>>
        w == IF Get(schema, "error_handling_recommended", FALSE)
                /\ ~Has(node, "onError") /\ ~Has(node, "retryOnFail")
             THEN << <<"Error handling recommended but not configured", "">> >>
             ELSE <<>>
        errors == e1 \o e2 \o e3
    IN  IF node_type \notin DOMAIN Schemas
        THEN [valid |-> TRUE,
              warnings |-> << <<"No schema found for node type: ", node_type>> >>,
              errors |-> <<>>]
        ELSE [valid |-> Len(errors) = 0, errors |-> errors, warnings |-> w]

\* NodeSchemaValidator.validate_node.  A message f"text{arg}" is <<text, arg>>.
validate_node(node) ==
    LET node_type == TypeOf(node)
        schema == SchemaOf(node_type)
        params == Get(node, "parameters", EmptyDict)
        required == Get(schema, "required", <<>>)
        missing == SelectSeq(required, LAMBDA p : p \notin DOMAIN params)
        e1 == MapSeq(missing, LAMBDA p : <<"Missing required parameter: ", p>>)
        e2 == IF required # <<>> /\ DOMAIN params = {}
              THEN << <<"Parameters object is empty but required parameters are needed", "">> >>
              ELSE <<>>
        cred_type == Get(schema, "credential_type", "")
        e3 == IF Get(schema, "requires_credentials", FALSE)
              THEN IF ~Has(node, "credentials")
                   THEN << <<"Missing credentials configuration", "">> >>
                   ELSE IF cred_type # "" /\ cred_type \notin DOMAIN node.credentials
                        THEN << <<"Missing credential type: ", cred_type>> >>
                        ELSE <<>>
              ELSE <<>>
        w == IF Get(schema, "error_handling_recommended", FALSE)
                /\ ~Has(node, "onError") /\ ~Has(node, "retryOnFail")
             THEN << <<"Error handling recommended but not configured", "">> >>
             ELSE <<>>
        errors == e1 \o e2 \o e3
    IN  IF node_type \notin DOMAIN Schemas
        THEN [valid |-> TRUE,
              warnings |-> << <<"No schema found for node type: ", node_type>> >>,
              errors |-> <<>>]
        ELSE [valid |-> Len(errors) = 0, errors |-> errors, warnings |-> w]

-----------------------------------------------------------------------------
(* Quality Scorer: QualityValidator.  A float ratio a / b is kept as the    *)
(* pair <<a, b>>; the 'message' strings of the check results are display    *)
(* text that no code reads and are left out.                                *)

min_quality_score == 80

min_sticky_notes == 5

\* min_node_count with the minima of 'simple' and 'complex' exchanged
min_node_count_Swapped(c) ==
    CASE c = "simple" -> 35
      [] c = "standard" -> 25
      [] c = "complex" -> 15
      [] OTHER -> 25

\* self.min_node_count.get(complexity, 25)
min_node_count(c) ==
    CASE c = "simple" -> 15
      [] c = "standard" -> 25
      [] c = "complex" -> 35
      [] OTHER -> 25

NodesOf(wf) == Get(wf, "nodes", <<>>)

IsSticky(n) == TypeOf(n) = StickyNoteType

\* QualityValidator._check_node_count
_check_node_count(wf, c) ==
    LET node_count == Len(NodesOf(wf))
        required == min_node_count(c)
        score == IF node_count >= 35 THEN 20
                 ELSE IF node_count >= 25 THEN 15
                 ELSE IF node_count >= 15 THEN 10
                 ELSE IF node_count >= 10 THEN 5
                 ELSE 0
    IN  [score |-> score, max_score |-> 20, node_count |-> node_count,
         required |-> required, passed |-> node_count >= required]

\* the test of lines 102-105: the node carries a binding of its credential kind
HasProperCredentials(n) ==
    /\ Has(n, "credentials")
    /\ get_credential_type(TypeOf(n)) # ""
    /\ get_credential_type(TypeOf(n)) \in DOMAIN n.credentials

\* _check_credentials that counts the service nodes lacking the binding
_check_credentials_Unbound(wf) ==
    LET nodes == NodesOf(wf)
        service_nodes == SelectSeq(nodes, LAMBDA n : requires_credentials(TypeOf(n)))
        nodes_with_creds == CountSeq(service_nodes, LAMBDA n : ~HasProperCredentials(n))
        total == Len(service_nodes)
        score == IF nodes_with_creds >= total THEN 15
                 ELSE IF 10 * nodes_with_creds >= 8 * total THEN 12
                 ELSE IF 10 * nodes_with_creds >= 6 * total THEN 9
                 ELSE IF 10 * nodes_with_creds >= 4 * total THEN 6
                 ELSE 0
    IN  IF total = 0
        THEN [score |-> 15, max_score |-> 15, passed |-> TRUE]
        ELSE [score |-> score, max_score |-> 15, service_nodes |-> total,
              with_credentials |-> nodes_with_creds,
              percentage |-> <<nodes_with_creds, total>>,
              passed |-> 10 * nodes_with_creds >= 9 * total]

\* QualityValidator._check_credentials
_check_credentials(wf) ==
    LET nodes == NodesOf(wf)
        service_nodes == SelectSeq(nodes, LAMBDA n : requires_credentials(TypeOf(n)))
        nodes_with_creds == CountSeq(service_nodes, HasProperCredentials)
        total == Len(service_nodes)
        score == IF nodes_with_creds >= total THEN 15
                 ELSE IF 10 * nodes_with_creds >= 8 * total THEN 12
                 ELSE IF 10 * nodes_with_creds >= 6 * total THEN 9
                 ELSE IF 10 * nodes_with_creds >= 4 * total THEN 6
                 ELSE 0
    IN  IF total = 0
        THEN [score |-> 15, max_score |-> 15, passed |-> TRUE]
        ELSE [score |-> score, max_score |-> 15, service_nodes |-> total,
              with_credentials |-> nodes_with_creds,
              percentage |-> <<nodes_with_creds, total>>,
              passed |-> 10 * nodes_with_creds >= 9 * total]

\* QualityValidator._check_parameters
_check_parameters(wf) ==
    LET nodes == NodesOf(wf)
        checked == SelectSeq(nodes, LAMBDA n : ~IsSticky(n))
        total_nodes == Len(checked)
        complete_params == CountSeq(checked, LAMBDA n : validate_node(n).valid)
        \* percentage = 1.0 when total_nodes == 0
        num == IF total_nodes = 0 THEN 1 ELSE complete_params
        den == IF total_nodes = 0 THEN 1 ELSE total_nodes
        score == IF num >= den THEN 15
                 ELSE IF 10 * num >= 9 * den THEN 12
                 ELSE IF 10 * num >= 8 * den THEN 9
                 ELSE 0
    IN  [score |-> score, max_score |-> 15, complete_nodes |-> complete_params,
         total_nodes |-> total_nodes, percentage |-> <<num, den>>,
         passed |-> 10 * num >= 8 * den]

\* the filter of lines 174-178: neither a trigger nor a sticky note
IsProcessable(n) == ~EndsWithTrigger(TypeOf(n)) /\ ~IsSticky(n)

HasErrorHandling(n) ==
    Has(n, "onError") \/ Has(n, "retryOnFail") \/ Has(n, "continueOnFail")

\* _check_error_handling that takes a credential binding for an error policy
_check_error_handling_CountsBound(wf) ==
    LET processable_nodes == SelectSeq(NodesOf(wf), IsProcessable)
        total == Len(processable_nodes)
        nodes_with_errors == CountSeq(processable_nodes,
                                     LAMBDA n : HasErrorHandling(n) \/ Has(n, "credentials"))
        score == IF 10 * nodes_with_errors >= 5 * total THEN 20
                 ELSE IF 10 * nodes_with_errors >= 4 * total THEN 16
                 ELSE IF 10 * nodes_with_errors >= 3 * total THEN 12
                 ELSE IF 10 * nodes_with_errors >= 2 * total THEN 8
                 ELSE 0
    IN  IF total = 0
        THEN [score |-> 0, max_score |-> 20, passed |-> FALSE]
        ELSE [score |-> score, max_score |-> 20,
              nodes_with_error_handling |-> nodes_with_errors,
              total_nodes |-> total, percentage |-> <<nodes_with_errors, total>>,
              passed |-> 10 * nodes_with_errors >= 3 * total]

\* QualityValidator._check_error_handling (min_error_handling_percentage = 0.3)
_check_error_handling(wf) ==
    LET processable_nodes == SelectSeq(NodesOf(wf), IsProcessable)
        total == Len(processable_nodes)
        nodes_with_errors == CountSeq(processable_nodes, HasErrorHandling)
        score == IF 10 * nodes_with_errors >= 5 * total THEN 20
                 ELSE IF 10 * nodes_with_errors >= 4 * total THEN 16
                 ELSE IF 10 * nodes_with_errors >= 3 * total THEN 12
                 ELSE IF 10 * nodes_with_errors >= 2 * total THEN 8
                 ELSE 0
    IN  IF total = 0
        THEN [score |-> 0, max_score |-> 20, passed |-> FALSE]
        ELSE [score |-> score, max_score |-> 20,
              nodes_with_error_handling |-> nodes_with_errors,
              total_nodes |-> total, percentage |-> <<nodes_with_errors, total>>,
              passed |-> 10 * nodes_with_errors >= 3 * total]

ConnectionsOf(wf) == Get(wf, "connections", EmptyDict)

\* every connection entry of a connection map, over all sources and ports
AllConns(connections) ==
    UNION { UNION { UNION { { connections[s][p][i][j] :
                              j \in 1..Len(connections[s][p][i]) } :
                            i \in 1..Len(connections[s][p]) } :
                    p \in DOMAIN connections[s] } :
            s \in DOMAIN connections }

\* _check_connections raises KeyError at n['name'] (lines 222-234) or at
\* conn['node'] (line 245)
_check_connections_raises(wf) ==
    \/ AnySeq(NodesOf(wf), LAMBDA n : ~Has(n, "name"))
    \/ \E c \in AllConns(ConnectionsOf(wf)) : ~Has(c, "node")

\* QualityValidator._check_connections, when it does not raise
_check_connections(wf) ==
    LET nodes == NodesOf(wf)
        idx == 1..Len(nodes)
        node_names == { nodes[i].name : i \in idx }
        trigger_nodes == { nodes[i].name : i \in { k \in idx : EndsWithTrigger(TypeOf(nodes[k])) } }
        sticky_notes == { nodes[i].name : i \in { k \in idx : IsSticky(nodes[k]) } }
        nodes_needing_input == (node_names \ trigger_nodes) \ sticky_notes
        nodes_with_input == { c.node : c \in AllConns(ConnectionsOf(wf)) }
        unconnected == nodes_needing_input \ nodes_with_input
    IN  [score |-> IF unconnected = {} THEN 5 ELSE 0, max_score |-> 5,
         passed |-> unconnected = {}, unconnected_nodes |-> unconnected]

\* QualityValidator._check_documentation
_check_documentation(wf) ==
    LET count == CountSeq(NodesOf(wf), IsSticky)
        score == IF count >= 8 THEN 10
                 ELSE IF count >= 5 THEN 7
                 ELSE IF count >= 3 THEN 4
                 ELSE 0
    IN  [score |-> score, max_score |-> 10, sticky_note_count |-> count,
         required |-> min_sticky_notes, passed |-> count >= min_sticky_notes]

\* _check_flow_complexity raises KeyError at n['type'] (lines 298-301)
_check_flow_complexity_raises(wf) ==
    AnySeq(NodesOf(wf), LAMBDA n : ~Has(n, "type"))

HasType(wf, types) == AnySeq(NodesOf(wf), LAMBDA n : TypeOf(n) \in types)

\* QualityValidator._check_flow_complexity, when it does not raise
_check_flow_complexity(wf, c) ==
    LET features ==
            (IF HasType(wf, {"n8n-nodes-base.if", "n8n-nodes-base.switch"})
             THEN <<"conditional logic">> ELSE <<>>)
         \o (IF HasType(wf, {"n8n-nodes-base.merge"}) THEN <<"merging">> ELSE <<>>)
         \o (IF HasType(wf, {"n8n-nodes-base.set"})
             THEN <<"data transformation">> ELSE <<>>)
         \o (IF HasType(wf, {"n8n-nodes-base.code", "n8n-nodes-base.function"})
             THEN <<"custom logic">> ELSE <<>>)
        feature_count == Len(features)
        score == IF c = "simple"
                 THEN IF feature_count >= 2 THEN 15
                      ELSE IF feature_count >= 1 THEN 10
                      ELSE 5
                 ELSE IF feature_count >= 3 THEN 15
                      ELSE IF feature_count >= 2 THEN 10
                      ELSE IF feature_count >= 1 THEN 5
                      ELSE 0
    IN  [score |-> score, max_score |-> 15, features |-> features,
         feature_count |-> feature_count,
         passed |-> feature_count >= (IF c = "simple" THEN 1 ELSE 2)]

CheckNames ==
    <<"node_count", "credentials", "parameters", "error_handling",
      "connections", "documentation", "flow_complexity">>

\* _calculate_score that leaves the flow complexity check out of the sum
_calculate_score_NoFlow(results) ==
    results.node_count.score + results.credentials.score
    + results.parameters.score + results.error_handling.score
    + results.connections.score + results.documentation.score

\* QualityValidator._calculate_score
_calculate_score(results) ==
    results.node_count.score + results.credentials.score
    + results.parameters.score + results.error_handling.score
    + results.connections.score + results.documentation.score
    + results.flow_complexity.score

\* QualityValidator._get_grade
_get_grade(score) ==
    IF score >= 90 THEN "A (Excellent)"
    ELSE IF score >= 80 THEN "B (Good)"
    ELSE IF score >= 70 THEN "C (Acceptable)"
    ELSE IF score >= 60 THEN "D (Needs Improvement)"
    ELSE "F (Poor)"

\* QualityValidator.validate raises what one of its checks raises
validate_raises(wf) ==
    _check_connections_raises(wf) \/ _check_flow_complexity_raises(wf)

\* QualityValidator.validate: the outcome is the returned dict, or the KeyError
validate(wf, c) ==
    IF validate_raises(wf)
    THEN [raised |-> TRUE, exception |-> "KeyError"]
    ELSE With([node_count |-> _check_node_count(wf, c),
               credentials |-> _check_credentials(wf),
               parameters |-> _check_parameters(wf),
               error_handling |-> _check_error_handling(wf),
               connections |-> _check_connections(wf),
               documentation |-> _check_documentation(wf),
               flow_complexity |-> _check_flow_complexity(wf, c)],
              LAMBDA results :
                With(_calculate_score(results),
                     LAMBDA overall_score :
                       [raised |-> FALSE, valid |-> overall_score >= min_quality_score,
                        score |-> overall_score, details |-> results,
                        required_score |-> min_quality_score,
                        grade |-> _get_grade(overall_score)]))

\* generate_feedback raises KeyError where it formats a key that the failing
\* check's result does not hold: details['error_handling']['percentage'] of
\* the 'No processable nodes found' result (line 391)
generate_feedback_raises(validation_result) ==
    LET details == validation_result.details
    IN  \/ ~details.credentials.passed
           /\ ~(Has(details.credentials, "service_nodes")
                /\ Has(details.credentials, "with_credentials"))
        \/ ~details.error_handling.passed
           /\ ~Has(details.error_handling, "percentage")

\* QualityValidator.generate_feedback, when it does not raise.  An item is the
\* check it is about and the numbers its text quotes.
generate_feedback(validation_result) ==
    LET d == validation_result.details
    IN  (IF ~d.node_count.passed
         THEN << [check |-> "node_count", has |-> d.node_count.node_count,
                  required |-> d.node_count.required] >>
         ELSE <<>>)
     \o (IF ~d.credentials.passed
         THEN << [check |-> "credentials",
                  missing |-> d.credentials.service_nodes
                              - d.credentials.with_credentials] >>
         ELSE <<>>)
     \o (IF ~d.parameters.passed
         THEN << [check |-> "parameters",
                  missing |-> d.parameters.total_nodes
                              - d.parameters.complete_nodes] >>
         ELSE <<>>)
     \o (IF ~d.error_handling.passed
         THEN << [check |-> "error_handling",
                  percentage |-> d.error_handling.percentage] >>
         ELSE <<>>)
     \o (IF ~d.connections.passed
         THEN << [check |-> "connections",
                  count |-> Cardinality(d.connections.unconnected_nodes),
                  unconnected |-> d.connections.unconnected_nodes] >>
         ELSE <<>>)
     \o (IF ~d.documentation.passed
         THEN << [check |-> "documentation",
                  needed |-> d.documentation.required
                             - d.documentation.sticky_note_count] >>
         ELSE <<>>)
     \o (IF ~d.flow_complexity.passed
         THEN << [check |-> "flow_complexity"] >>
         ELSE <<>>)

-----------------------------------------------------------------------------
(* Repair passes: EnhancedWorkflowGenerator._validate_and_refine.  The      *)
(* passes mutate the graph in place and return it; here each pass maps the  *)
(* graph before to the graph after.  str(uuid.uuid4()) is a fresh value:    *)
(* the k-th value drawn in a run is <<"uuid4", k>>, and `u` is the number   *)
(* drawn before the pass.                                                   *)

Uuid4(k) == <<"uuid4", k>>

\* how many of the first k nodes lack an 'id'
LackingId(nodes, k) == Cardinality({ i \in 1..k : ~Has(nodes[i], "id") })

\* mutant: every node gets a new id, whether it had one or not
FixNode_NewId(node, id) ==
    [k \in DOMAIN node \cup {"id", "position", "parameters", "typeVersion"} |->
        IF k = "id" THEN id
        ELSE IF k \in DOMAIN node THEN node[k]
        ELSE CASE k = "position" -> <<0, 0>>
               [] k = "parameters" -> EmptyDict
               [] k = "typeVersion" -> 1]

\* the per-node part of _fix_structure (lines 438-449)
FixNode(node, id) ==
    [k \in DOMAIN node \cup {"id", "position", "parameters", "typeVersion"} |->
        IF k \in DOMAIN node THEN node[k]
        ELSE CASE k = "id" -> id
               [] k = "position" -> <<0, 0>>
               [] k = "parameters" -> EmptyDict
               [] k = "typeVersion" -> 1]

\* EnhancedWorkflowGenerator._fix_structure
_fix_structure(wf, u) ==
    LET nodes == NodesOf(wf)
    IN  [k \in DOMAIN wf \cup {"name", "nodes", "connections", "active", "settings"} |->
            CASE k = "nodes" ->
                   [i \in 1..Len(nodes) |->
                      FixNode(nodes[i], Uuid4(u + LackingId(nodes, i)))]
              [] k # "nodes" /\ k \in DOMAIN wf -> wf[k]
              [] k = "name" /\ k \notin DOMAIN wf -> "Generated Workflow"
              [] k = "connections" /\ k \notin DOMAIN wf -> EmptyDict
              [] k = "active" /\ k \notin DOMAIN wf -> FALSE
              [] k = "settings" /\ k \notin DOMAIN wf -> [executionOrder |-> "v1"]]

\* uuid4 values _fix_structure draws
FixStructureUuids(wf) == LackingId(NodesOf(wf), Len(NodesOf(wf)))

\* EnhancedWorkflowGenerator._fix_parameters: validates every node, prints the
\* findings and returns the graph as it was
_fix_parameters(wf) ==
    LET logged == MapSeq(NodesOf(wf), validate_node)
    IN  wf

\* f"{self._get_service_name(node_type)} account", tabulated over the types
\* whose schema requires credentials
CredentialName(t) ==
    CASE t = "n8n-nodes-base.openAi" -> "Openai account"
      [] t = "@blotato/n8n-nodes-blotato.blotato" -> "Blotato account"
      [] t = "@n8n/n8n-nodes-langchain.chatOpenAi" -> "Chatopenai account"
      [] t = "n8n-nodes-base.googleSheets" -> "Googlesheets account"
      [] t = "n8n-nodes-base.gmail" -> "Gmail account"
      [] t = "n8n-nodes-base.slack" -> "Slack account"
      [] t = "n8n-nodes-base.postgres" -> "Postgres account"
      [] t = "n8n-nodes-base.mysql" -> "Mysql account"
      [] t = "n8n-nodes-base.perplexity" -> "Perplexity account"

\* the loop body of _inject_credentials (lines 469-481)
InjectCredentialsNode(node) ==
    LET node_type == TypeOf(node)
        cred_type == get_credential_type(node_type)
    IN  IF requires_credentials(node_type) /\ ~Has(node, "credentials")
           /\ cred_type # ""
        THEN Put(node, "credentials",
                 Put(EmptyDict, cred_type,
                     [id |-> "{{CREDENTIAL_ID}}", name |-> CredentialName(node_type)]))
        ELSE node

\* EnhancedWorkflowGenerator._inject_credentials
_inject_credentials(wf) ==
    IF Has(wf, "nodes")
    THEN Put(wf, "nodes", MapSeq(wf.nodes, InjectCredentialsNode))
    ELSE wf

\* mutant: the defaults are written over the values the node has
AddErrorHandlingNode_Overwrite(node) ==
    LET node_type == TypeOf(node)
    IN  IF EndsWithTrigger(node_type) \/ node_type = StickyNoteType
        THEN node
        ELSE IF needs_error_handling(node_type)
             THEN [k \in DOMAIN node \cup {"onError", "retryOnFail", "maxTries"} |->
                     CASE k = "onError" -> "continueRegularOutput"
                       [] k = "retryOnFail" -> TRUE
                       [] k = "maxTries" -> 3
                       [] OTHER -> node[k]]
             ELSE node

\* the loop body of _add_error_handling (lines 498-511)
AddErrorHandlingNode(node) ==
    LET node_type == TypeOf(node)
    IN  IF EndsWithTrigger(node_type) \/ node_type = StickyNoteType
        THEN node
        ELSE IF needs_error_handling(node_type)
             THEN [k \in DOMAIN node \cup {"onError", "retryOnFail", "maxTries"} |->
                     IF k \in DOMAIN node THEN node[k]
                     ELSE CASE k = "onError" -> "continueRegularOutput"
                            [] k = "retryOnFail" -> TRUE
                            [] k = "maxTries" -> 3]
             ELSE node

\* EnhancedWorkflowGenerator._add_error_handling
_add_error_handling(wf) ==
    IF Has(wf, "nodes")
    THEN Put(wf, "nodes", MapSeq(wf.nodes, AddErrorHandlingNode))
    ELSE wf

\* any(word in name.lower() for word in ['post', 'send', 'save', 'create']),
\* tabulated over the node names the model uses
IsOutputName(name) == name \in { "Send Mail", "Send Slack" }

\* [n for n in nodes if test(n)][0].get('position', default)
FirstPosition(nodes, test(_), default) ==
    LET found == SelectSeq(nodes, test)
    IN  Get(found[1], "position", default)

\* EnhancedWorkflowGenerator._identify_workflow_sections
_identify_workflow_sections(wf) ==
    LET nodes == NodesOf(wf)
        IsTrigger(n) == EndsWithTrigger(TypeOf(n))
        IsConditional(n) == TypeOf(n) \in {"n8n-nodes-base.if", "n8n-nodes-base.switch"}
        IsAi(n) == ContainsAi(TypeOf(n))
        IsMerge(n) == TypeOf(n) = "n8n-nodes-base.merge"
        IsOutput(n) == IsOutputName(Get(n, "name", ""))
        specific ==
            (IF AnySeq(nodes, IsTrigger)
             THEN << [title |-> "Workflow Trigger",
                      description |-> "Initiates the workflow execution",
                      position |-> FirstPosition(nodes, IsTrigger, <<0, 0>>)] >>
             ELSE <<>>)
         \o (IF AnySeq(nodes, IsConditional)
             THEN << [title |-> "Conditional Logic",
                      description |-> "Routes data based on conditions",
                      position |-> FirstPosition(nodes, IsConditional, <<220, 0>>)] >>
             ELSE <<>>)
         \o (IF AnySeq(nodes, IsAi)
             THEN << [title |-> "AI Processing",
                      description |-> "AI-powered content generation",
                      position |-> FirstPosition(nodes, IsAi, <<440, 0>>)] >>
             ELSE <<>>)
         \o (IF AnySeq(nodes, IsMerge)
             THEN << [title |-> "Merge Results",
                      description |-> "Combines parallel execution paths",
                      position |-> FirstPosition(nodes, IsMerge, <<660, 0>>)] >>
             ELSE <<>>)
         \o (IF AnySeq(nodes, IsOutput)
             THEN << [title |-> "Output Actions",
                      description |-> "Final workflow outputs",
                      position |-> FirstPosition(nodes, IsOutput, <<880, 0>>)] >>
             ELSE <<>>)
    IN  IF Len(specific) < 3
        THEN specific \o << [title |-> "Data Processing",
                             description |-> "Transform and prepare data",
                             position |-> <<440, 300>>] >>
        ELSE specific

\* f"Note {index + 1}"
NoteName(index) ==
    <<"Note 1", "Note 2", "Note 3", "Note 4", "Note 5", "Note 6">>[index + 1]

\* EnhancedWorkflowGenerator._create_sticky_note; the content
\* f"## {title}\n\n{description}" is kept as the pair it is formatted from
_create_sticky_note(section, index, id) ==
    [id |-> id, name |-> NoteName(index), type |-> StickyNoteType,
     typeVersion |-> 1,
     position |-> <<section.position[1] - 200, section.position[2] - 150>>,
     parameters |-> [content |-> <<section.title, section.description>>,
                     height |-> 160, width |-> 240]]

\* target_notes of _add_documentation (lines 523-525)
TargetNotes(c) == IF c = "complex" THEN 8 ELSE min_sticky_notes

\* the sections _add_documentation writes a note for: sections[:notes_needed]
NotedSections(wf, c) ==
    LET existing_notes == CountSeq(NodesOf(wf), IsSticky)
        notes_needed == Max(0, TargetNotes(c) - existing_notes)
        sections == _identify_workflow_sections(wf)
    IN  IF notes_needed > 0
        THEN SubSeq(sections, 1, IF Len(sections) < notes_needed
                                 THEN Len(sections) ELSE notes_needed)
        ELSE <<>>

\* EnhancedWorkflowGenerator._add_documentation; without a 'nodes' key the
\* notes are appended to the temporary list of workflow.get('nodes', [])
_add_documentation(wf, c, u) ==
    LET noted == NotedSections(wf, c)
    IN  IF Has(wf, "nodes")
        THEN Put(wf, "nodes",
                 wf.nodes \o [i \in 1..Len(noted) |->
                                _create_sticky_note(noted[i], i - 1, Uuid4(u + i))])
        ELSE wf

\* uuid4 values _add_documentation draws
AddDocumentationUuids(wf, c) == Len(NotedSections(wf, c))

\* EnhancedWorkflowGenerator._validate_connections
_validate_connections(wf) ==
    IF Has(wf, "connections") THEN wf ELSE Put(wf, "connections", EmptyDict)

NumStages == 6

\* mutant: the annotations are inserted before the credentials and the
\* error policies
RepairStage_DocEarly(k, wf, c, u) ==
    CASE k = 1 -> _fix_structure(wf, u)
      [] k = 2 -> _fix_parameters(wf)
      [] k = 3 -> _add_documentation(wf, c, u)
      [] k = 4 -> _inject_credentials(wf)
      [] k = 5 -> _add_error_handling(wf)
      [] k = 6 -> _validate_connections(wf)

\* the k-th pass of _validate_and_refine (lines 393-415)
RepairStage(k, wf, c, u) ==
    CASE k = 1 -> _fix_structure(wf, u)
      [] k = 2 -> _fix_parameters(wf)
      [] k = 3 -> _inject_credentials(wf)
      [] k = 4 -> _add_error_handling(wf)
      [] k = 5 -> _add_documentation(wf, c, u)
      [] k = 6 -> _validate_connections(wf)

\* uuid4 values the k-th pass draws
StageUuids(k, wf, c) ==
    CASE k = 1 -> FixStructureUuids(wf)
      [] k = 5 -> AddDocumentationUuids(wf, c)
      [] OTHER -> 0

RECURSIVE RefineFrom(_, _, _, _)
\* passes k..6 in order
RefineFrom(k, wf, c, u) ==
    IF k > NumStages THEN wf
    ELSE With(RepairStage(k, wf, c, u),
              LAMBDA w : RefineFrom(k + 1, w, c, u + StageUuids(k, wf, c)))

\* EnhancedWorkflowGenerator._validate_and_refine
_validate_and_refine(wf, c, u) == RefineFrom(1, wf, c, u)

RECURSIVE RefineUuidsFrom(_, _, _)
RefineUuidsFrom(k, wf, c) ==
    IF k > NumStages THEN 0
    ELSE With(RepairStage(k, wf, c, 0),
              LAMBDA w : StageUuids(k, wf, c) + RefineUuidsFrom(k + 1, w, c))

\* uuid4 values one call of _validate_and_refine draws
RefineUuids(wf, c) == RefineUuidsFrom(1, wf, c)

-----------------------------------------------------------------------------
(* What the synthesis collaborator can answer.  The candidate graphs are    *)
(* what json.loads made of the reply: dicts with any subset of the keys.    *)

Conn(target) == [node |-> target, type |-> "main", index |-> 0]

\* connections of a chain: names[i] -> names[i+1] on port 'main'
ChainConnections(names) ==
    [s \in { names[i] : i \in 1..(Len(names) - 1) } |->
        [main |-> << << Conn(names[(CHOOSE i \in 1..(Len(names) - 1) : names[i] = s) + 1]) >> >>]]

StartNode ==
    [id |-> <<"cand", 1>>, name |-> "Start", type |-> "n8n-nodes-base.manualTrigger",
     typeVersion |-> 1, position |-> <<0, 0>>, parameters |-> EmptyDict]

\* a complete five-node flow: trigger, branch, transformation, merge, mail
GoodNodes ==
    << StartNode,
       [id |-> <<"cand", 2>>, name |-> "Check", type |-> "n8n-nodes-base.if",
        typeVersion |-> 1, position |-> <<220, 0>>,
        parameters |-> [conditions |-> "={{$json.ok}}"],
        onError |-> "continueRegularOutput"],
       [id |-> <<"cand", 3>>, name |-> "Prepare", type |-> "n8n-nodes-base.set",
        typeVersion |-> 1, position |-> <<440, 0>>,
        parameters |-> [values |-> "={{$json.body}}"]],
       [id |-> <<"cand", 4>>, name |-> "Merge", type |-> "n8n-nodes-base.merge",
        typeVersion |-> 1, position |-> <<660, 0>>, parameters |-> EmptyDict],
       [name |-> "Send Mail", type |-> "n8n-nodes-base.gmail",
        parameters |-> [resource |-> "message", operation |-> "send"]] >>

CandGood ==
    [name |-> "Mail Flow", nodes |-> GoodNodes,
     connections |-> ChainConnections(<<"Start", "Check", "Prepare", "Merge", "Send Mail">>),
     active |-> FALSE, settings |-> [executionOrder |-> "v1"]]

\* the same flow without the error policy on the branch and without connections
CandUnconnected ==
    [name |-> "Mail Flow",
     nodes |-> [i \in 1..Len(GoodNodes) |->
                  IF i = 2
                  THEN [k \in DOMAIN GoodNodes[2] \ {"onError"} |-> GoodNodes[2][k]]
                  ELSE GoodNodes[i]]]

SlackNode == [name |-> "Send Slack", type |-> "n8n-nodes-base.slack"]

\* trigger and an unconfigured service node, not connected
CandMid == [nodes |-> <<StartNode, SlackNode>>]

\* the same, connected
CandMidConnected ==
    [nodes |-> <<StartNode, SlackNode>>,
     connections |-> ChainConnections(<<"Start", "Send Slack">>)]

\* one service node with an empty credential bag and no parameters
CandZero ==
    [nodes |-> << [name |-> "Ask", type |-> "n8n-nodes-base.openAi",
                   credentials |-> EmptyDict] >>]

\* a four-node flow with two flow features that brings its own eight notes
DocNote(i) ==
    [id |-> <<"cand", 10 + i>>,
     name |-> <<"Doc 1", "Doc 2", "Doc 3", "Doc 4", "Doc 5", "Doc 6", "Doc 7", "Doc 8">>[i],
     type |-> StickyNoteType, typeVersion |-> 1, position |-> <<220 * i, -200>>,
     parameters |-> [content |-> <<"Section", "What this part does">>,
                     height |-> 160, width |-> 240]]

CandEighty ==
    [name |-> "Documented Flow",
     nodes |-> <<GoodNodes[1], GoodNodes[2], GoodNodes[3], GoodNodes[5]>>
               \o [i \in 1..8 |-> DocNote(i)],
     connections |-> ChainConnections(<<"Start", "Check", "Prepare", "Send Mail">>),
     active |-> FALSE, settings |-> [executionOrder |-> "v1"]]

\* a graph with no processable node
CandTriggerOnly == [nodes |-> <<StartNode>>]

\* a partial graph: no 'nodes' key
CandPartial == [name |-> "Draft"]

\* malformed graphs: a node without 'name', a node without 'type'
CandNoName == [nodes |-> << [type |-> "n8n-nodes-base.set"] >>]

CandNoType == [nodes |-> << [name |-> "Prepare"] >>]

CandidateGraphs ==
    { CandGood, CandEighty, CandUnconnected, CandMid, CandMidConnected, CandZero,
      CandTriggerOnly, CandPartial, CandNoName, CandNoType }

\* _generate_workflow (lines 326-353): the API call or _extract_json raises
\* (caught, None), the reply holds no JSON (None), or it holds a JSON object
SynthesisOutcomes ==
    { [kind |-> "raises"], [kind |-> "nothing"], [kind |-> "json", value |-> EmptyDict] }
    \cup { [kind |-> "json", value |-> g] : g \in CandidateGraphs }

\* EnhancedWorkflowGenerator._generate_workflow
_generate_workflow(outcome) ==
    IF outcome.kind = "json" THEN Some(outcome.value) ELSE None

\* `not raw_workflow` (line 92): None or an empty dict
IsFalsy(raw) == raw = None \/ DOMAIN raw[1] = {}

Complexities == { "simple", "standard", "complex", "heavy" }

-----------------------------------------------------------------------------
(* One run of EnhancedWorkflowGenerator.generate.                           *)

\* QUALITY_CONFIG.get('max_generation_attempts', 3)
max_attempts == 3

\* EnhancedWorkflowGenerator._get_required_node_count
_get_required_node_count(c) == min_node_count(c)

\* _build_generation_prompt: the instruction is kept as the values it is
\* formatted from and the feedback blocks appended to it
_build_generation_prompt(c) ==
    [complexity |-> c, required_node_count |-> _get_required_node_count(c),
     feedback |-> <<>>]

\* _update_prompt_with_feedback: the old text followed by the feedback block
_update_prompt_with_feedback(p, feedback) ==
    [p EXCEPT !.feedback = Append(@, feedback)]

\* line 104: the candidate replaces the best one seen
IsBetter(score, best) == score > best

\* mutant: the threshold itself is not enough
Accepts_Strict(qr) == qr.valid /\ qr.score > min_quality_score

\* line 109: the attempt is accepted
Accepts(qr) == qr.valid /\ qr.score >= min_quality_score

\* lines 111-116: what an accepted attempt returns
AcceptedResult(refined, qr, att) ==
    [workflow |-> Some(refined), quality_score |-> qr.score,
     quality_details |-> qr, attempt |-> att + 1]

\* mutant: the attempt count is the last value of the 0-based loop variable
ExhaustedResult_LoopVar(best_wf, best) ==
    [workflow |-> best_wf, quality_score |-> best,
     warning |-> "Workflow may not meet all quality standards",
     attempts |-> max_attempts - 1]

\* lines 128-133: what the run returns after the loop
ExhaustedResult(best_wf, best) ==
    [workflow |-> best_wf, quality_score |-> best,
     warning |-> "Workflow may not meet all quality standards",
     attempts |-> max_attempts]

PipeInit ==
    /\ pc = "Seeding"
    /\ complexity \in Complexities
    /\ prompt = None
    /\ attempt = 0
    /\ raw_workflow = None
    /\ workflow = None
    /\ stage = 0
    /\ quality_result = None
    /\ best_workflow = None
    /\ best_score = 0
    /\ result = None
    /\ uuids = 0
    /\ requests = 0
    /\ history = <<>>

\* lines 61-82: the instruction is composed, the loop is entered
Seed ==
    /\ pc = "Seeding"
    /\ prompt' = Some(_build_generation_prompt(complexity))
    /\ pc' = "AwaitingCandidate"
    /\ UNCHANGED <<complexity, attempt, raw_workflow, workflow, stage,
                   quality_result, best_workflow, best_score, result, uuids,
                   requests, history>>

\* lines 84-93: one synthesis request; without a candidate the attempt is over
Request ==
    /\ pc = "AwaitingCandidate"
    /\ attempt < max_attempts
    /\ \E outcome \in SynthesisOutcomes :
         LET raw == _generate_workflow(outcome)
         IN  /\ raw_workflow' = raw
             /\ requests' = requests + 1
             /\ quality_result' = None
             /\ stage' = 0
             /\ IF IsFalsy(raw)
                THEN /\ pc' = "AwaitingCandidate"
                     /\ attempt' = attempt + 1
                     /\ workflow' = None
                     /\ history' = Append(history,
                                     [candidate |-> FALSE, stages |-> 0,
                                      graph |-> None, score |-> None, raised |-> FALSE])
                ELSE /\ pc' = "Repairing"
                     /\ attempt' = attempt
                     /\ workflow' = raw
                     /\ history' = history
    /\ UNCHANGED <<complexity, prompt, best_workflow, best_score, result, uuids>>

\* line 96: the next pass of _validate_and_refine
Repair ==
    /\ pc = "Repairing"
    /\ stage < NumStages
    /\ stage' = stage + 1
    /\ workflow' = Some(RepairStage(stage + 1, workflow[1], complexity, uuids))
    /\ uuids' = uuids + StageUuids(stage + 1, workflow[1], complexity)
    /\ pc' = IF stage + 1 = NumStages THEN "Scoring" ELSE "Repairing"
    /\ UNCHANGED <<complexity, prompt, attempt, raw_workflow, quality_result,
                   best_workflow, best_score, result, requests, history>>

\* lines 99-124: score, track the best, accept or fold the feedback into the
\* instruction; a KeyError of validate or generate_feedback leaves generate
Score ==
    /\ pc = "Scoring"
    /\ \E refined \in {workflow[1]} :
       \E qr \in {validate(refined, complexity)} :
       LET entry(r) == [candidate |-> TRUE, stages |-> stage, graph |-> Some(refined),
                        score |-> IF qr.raised THEN None ELSE Some(qr.score),
                        raised |-> r]
       IN  IF qr.raised
           THEN /\ pc' = "Raised"
                /\ quality_result' = None
                /\ history' = Append(history, entry(TRUE))
                /\ UNCHANGED <<best_workflow, best_score, result, prompt, attempt>>
           ELSE /\ quality_result' = Some(qr)
                /\ best_score' = IF IsBetter(qr.score, best_score)
                                 THEN qr.score ELSE best_score
                /\ best_workflow' = IF IsBetter(qr.score, best_score)
                                    THEN Some(refined) ELSE best_workflow
                /\ IF Accepts(qr)
                   THEN /\ pc' = "Accepted"
                        /\ result' = Some(AcceptedResult(refined, qr, attempt))
                        /\ history' = Append(history, entry(FALSE))
                        /\ UNCHANGED <<prompt, attempt>>
                   ELSE IF attempt < max_attempts - 1
                        THEN IF generate_feedback_raises(qr)
                             THEN /\ pc' = "Raised"
                                  /\ history' = Append(history, entry(TRUE))
                                  /\ UNCHANGED <<result, prompt, attempt>>
                             ELSE /\ pc' = "AwaitingCandidate"
                                  /\ prompt' = Some(_update_prompt_with_feedback(
                                                      prompt[1], generate_feedback(qr)))
                                  /\ attempt' = attempt + 1
                                  /\ history' = Append(history, entry(FALSE))
                                  /\ UNCHANGED result
                        ELSE /\ pc' = "AwaitingCandidate"
                             /\ attempt' = attempt + 1
                             /\ history' = Append(history, entry(FALSE))
                             /\ UNCHANGED <<result, prompt>>
    /\ UNCHANGED <<complexity, raw_workflow, workflow, stage, uuids, requests>>

\* lines 126-133: the loop is over, the best attempt is returned
ReturnBest ==
    /\ pc = "AwaitingCandidate"
    /\ attempt = max_attempts
    /\ pc' = "Exhausted"
    /\ result' = Some(ExhaustedResult(best_workflow, best_score))
    /\ UNCHANGED <<complexity, prompt, attempt, raw_workflow, workflow, stage,
                   quality_result, best_workflow, best_score, uuids, requests,
                   history>>

ValIdle == UNCHANGED valVars

RepIdle == UNCHANGED repVars

UnitIdle == UNCHANGED unitVars

PipeNext ==
    \/ Seed /\ ValIdle /\ RepIdle /\ UnitIdle
    \/ Request /\ ValIdle /\ RepIdle /\ UnitIdle
    \/ Repair /\ ValIdle /\ RepIdle /\ UnitIdle
    \/ Score /\ ValIdle /\ RepIdle /\ UnitIdle
    \/ ReturnBest /\ ValIdle /\ RepIdle /\ UnitIdle

-----------------------------------------------------------------------------
(* Structural Validator: ValidationService.validate_workflow on a           *)
(* WorkflowJSON (models/workflow.py).  pydantic has checked the field types *)
(* before: every node holds id, name, type, typeVersion, position and       *)
(* parameters, every connection entry node, type and index.  A              *)
(* ValidationError is [type, message, nodeId]; a message f"text{arg}" is    *)
(* <<text, arg>>.  A dict is iterated in insertion order; the connection    *)
(* maps of the model are filled in the order of NameOrder.                  *)

NameOrder == <<"A", "B", "C", "X">>

KeysInOrder(d) == SelectSeq(NameOrder, LAMBDA k : k \in DOMAIN d)

ValidationError(type, message, nodeId) ==
    [type |-> type, message |-> message, nodeId |-> nodeId]

REQUIRED_WORKFLOW_FIELDS == <<"name", "nodes", "connections">>

REQUIRED_NODE_FIELDS == <<"id", "name", "type", "typeVersion", "position", "parameters">>

TRIGGER_NODE_TYPES ==
    { "n8n-nodes-base.manualTrigger", "n8n-nodes-base.webhook",
      "n8n-nodes-base.scheduleTrigger", "n8n-nodes-base.cronTrigger" }

NodeNames(wf) == { wf.nodes[i].name : i \in 1..Len(wf.nodes) }

\* ValidationService._validate_structure
VS_validate_structure(wf) ==
    MapSeq(SelectSeq(REQUIRED_WORKFLOW_FIELDS, LAMBDA f : ~Has(wf, f)),
           LAMBDA f : ValidationError("structure", <<"Missing required field: ", f>>, None))
    \o (IF Len(wf.nodes) = 0
        THEN << ValidationError("structure",
                                <<"Workflow must contain at least one node", "">>, None) >>
        ELSE <<>>)

\* the loop body of ValidationService._validate_nodes (lines 86-111)
VS_validate_node(node) ==
    MapSeq(SelectSeq(REQUIRED_NODE_FIELDS, LAMBDA f : ~Has(node, f)),
           LAMBDA f : ValidationError("node", <<"Node missing required field: ", f>>,
                                      Some(node.id)))
    \o (IF Len(node.position) # 2
        THEN << ValidationError("node", <<"Node position must be [x, y]", "">>,
                                Some(node.id)) >>
        ELSE <<>>)
    \o (IF ~StartsWithBase(node.type)
        THEN << ValidationError("node", <<"Invalid node type format: ", node.type>>,
                                Some(node.id)) >>
        ELSE <<>>)

\* ValidationService._validate_nodes
VS_validate_nodes(wf) == FlattenSeq(MapSeq(wf.nodes, VS_validate_node))

\* the targets of the 'main' connections of one source, in order (lines 133-142)
VS_main_target_errors(wf, source_name) ==
    LET outputs == wf.connections[source_name]
        node_names == NodeNames(wf)
        group(g) == MapSeq(SelectSeq(g, LAMBDA c : c.node \notin node_names),
                           LAMBDA c : ValidationError("connection",
                                        <<"Connection target node not found: ", c.node>>,
                                        Some(source_name)))
    IN  IF Has(outputs, "main") THEN FlattenSeq(MapSeq(outputs.main, group)) ELSE <<>>

\* the loop body of ValidationService._validate_connections (lines 123-142)
VS_source_errors(wf, source_name) ==
    IF source_name \notin NodeNames(wf)
    THEN << ValidationError("connection",
                            <<"Connection source node not found: ", source_name>>, None) >>
    ELSE VS_main_target_errors(wf, source_name)

\* ValidationService._validate_connections
VS_validate_connections(wf) ==
    FlattenSeq(MapSeq(KeysInOrder(wf.connections), LAMBDA s : VS_source_errors(wf, s)))

\* ValidationService._validate_trigger
VS_validate_trigger(wf) ==
    IF AnySeq(wf.nodes, LAMBDA n : n.type \in TRIGGER_NODE_TYPES)
    THEN <<>>
    ELSE << <<"Workflow does not contain a trigger node. ", <<>> >> >>

\* mutant: the name is added to seen_names before it is looked up
VS_validate_unique_names_AddFirst(wf) ==
    LET nodes == wf.nodes
        seen_names(i) == { nodes[j].name : j \in 1..i }
    IN  MapSeq(SelectSeq([i \in 1..Len(nodes) |-> i],
                         LAMBDA i : nodes[i].name \in seen_names(i)),
               LAMBDA i : ValidationError("node", <<"Duplicate node name: ", nodes[i].name>>,
                                          Some(nodes[i].id)))

\* ValidationService._validate_unique_names
VS_validate_unique_names(wf) ==
    LET nodes == wf.nodes
        seen_names(i) == { nodes[j].name : j \in 1..(i - 1) }
    IN  MapSeq(SelectSeq([i \in 1..Len(nodes) |-> i],
                         LAMBDA i : nodes[i].name \in seen_names(i)),
               LAMBDA i : ValidationError("node", <<"Duplicate node name: ", nodes[i].name>>,
                                          Some(nodes[i].id)))

\* ValidationService._generate_warnings
VS_generate_warnings(wf) ==
    LET conn == wf.connections
        main_targets(s) ==
            IF Has(conn[s], "main")
            THEN UNION { { conn[s].main[i][j].node : j \in 1..Len(conn[s].main[i]) } :
                         i \in 1..Len(conn[s].main) }
            ELSE {}
        connected_nodes == DOMAIN conn \cup UNION { main_targets(s) : s \in DOMAIN conn }
        disconnected == SelectSeq(MapSeq(wf.nodes, LAMBDA n : n.name),
                                  LAMBDA nm : nm \notin connected_nodes)
    IN  (IF disconnected # <<>>
         THEN << <<"Disconnected nodes found: ", disconnected>> >>
         ELSE <<>>)
     \o (IF wf.name = "" \/ wf.name = "My Workflow"
         THEN << <<"Consider giving the workflow a more descriptive name", <<>> >> >>
         ELSE <<>>)

\* ValidationService.validate_workflow
validate_workflow(wf) ==
    LET errors == VS_validate_structure(wf) \o VS_validate_nodes(wf)
                  \o VS_validate_connections(wf) \o VS_validate_unique_names(wf)
        warnings == VS_validate_trigger(wf) \o VS_generate_warnings(wf)
    IN  [isValid |-> Len(errors) = 0, errors |-> errors, warnings |-> warnings]

-----------------------------------------------------------------------------
(* The graphs handed to validate_workflow: up to MaxValNodes nodes drawn    *)
(* from a pool and a connection map built from up to MaxConnEntries         *)
(* entries.  "X" is never the name of a node.                               *)

MaxValNodes == 2

MaxConnEntries == 2

\* a WorkflowNode; its id is its place in the node list
VNode(name, type, position) ==
    [name |-> name, type |-> type, typeVersion |-> 1, position |-> position,
     parameters |-> EmptyDict]

ValNodePool ==
    { VNode("A", "n8n-nodes-base.manualTrigger", <<0, 0>>),
      VNode("A", "n8n-nodes-base.set", <<0, 0>>),
      VNode("B", "n8n-nodes-base.set", <<220, 0>>),
      VNode("B", "n8n-nodes-base.set", <<220>>),
      VNode("B", "@n8n/n8n-nodes-langchain.agent", <<220, 0>>) }

NodeId(i) == <<"id1", "id2", "id3", "id4", "id5">>[i]

WithIds(nodes) == [i \in 1..Len(nodes) |-> Put(nodes[i], "id", NodeId(i))]

\* one connection entry: source key, output port, output group, target
ConnEntryPool ==
    { [src |-> "A", port |-> "main", grp |-> 1, target |-> "B"],
      [src |-> "A", port |-> "main", grp |-> 1, target |-> "X"],
      [src |-> "A", port |-> "main", grp |-> 2, target |-> "X"],
      [src |-> "A", port |-> "ai_tool", grp |-> 1, target |-> "X"],
      [src |-> "X", port |-> "main", grp |-> 1, target |-> "B"],
      [src |-> "X", port |-> "main", grp |-> 1, target |-> "X"] }

SeqsUpTo(S, n) == UNION { [1..k -> S] : k \in 0..n }

\* the connection map {src: {port: [[entries of group 1], [of group 2]]}}
ConnMap(entries) ==
    LET idx == 1..Len(entries)
        srcs == { entries[i].src : i \in idx }
        ports(s) == { entries[i].port : i \in { k \in idx : entries[k].src = s } }
        groups(s, p) == { entries[i].grp :
                            i \in { k \in idx : entries[k].src = s /\ entries[k].port = p } }
        last(s, p) == CHOOSE g \in groups(s, p) : \A h \in groups(s, p) : h <= g
        group(s, p, g) ==
            MapSeq(SelectSeq(entries, LAMBDA e : e.src = s /\ e.port = p /\ e.grp = g),
                   LAMBDA e : Conn(e.target))
    IN  [s \in srcs |-> [p \in ports(s) |-> [g \in 1..last(s, p) |-> group(s, p, g)]]]

ValGraph(nodes, entries) ==
    [name |-> "Flow", nodes |-> WithIds(nodes), connections |-> ConnMap(entries),
     active |-> FALSE, settings |-> EmptyDict]

\* nodes of a type the registry does not hold, with a name no node has
FreshNodes ==
    { VNode("C", t, <<440, 0>>) : t \in UnregisteredTypes }

\* the fields of the models that have no default (models/workflow.py)
WorkflowJSONRequired == { "name", "nodes", "connections" }

WorkflowNodeRequired == { "id", "name", "type", "typeVersion", "position", "parameters" }

WorkflowConnectionRequired == { "node", "type", "index" }

\* WorkflowJSON(**raw) raises pydantic's ValidationError: a field without
\* default is missing from the graph, a node or a connection entry
WorkflowJSON_raises(raw) ==
    \/ ~(WorkflowJSONRequired \subseteq DOMAIN raw)
    \/ \E i \in 1..Len(raw.nodes) : ~(WorkflowNodeRequired \subseteq DOMAIN raw.nodes[i])
    \/ \E s \in DOMAIN raw.connections : \E p \in DOMAIN raw.connections[s] :
         \E g \in 1..Len(raw.connections[s][p]) :
           \E j \in 1..Len(raw.connections[s][p][g]) :
             ~(WorkflowConnectionRequired \subseteq DOMAIN raw.connections[s][p][g][j])

\* WorkflowJSON(**raw): the fields given, and the defaults of the others
WorkflowJSON(raw) ==
    [k \in DOMAIN raw \cup {"active", "settings", "meta"} |->
        IF k = "nodes"
        THEN [i \in 1..Len(raw.nodes) |->
                [f \in DOMAIN raw.nodes[i] \cup {"credentials"} |->
                    IF f \in DOMAIN raw.nodes[i] THEN raw.nodes[i][f] ELSE None]]
        ELSE IF k \in DOMAIN raw THEN raw[k]
        ELSE IF k = "active" THEN FALSE
        ELSE IF k = "settings" THEN EmptyDict
        ELSE None]

\* graphs that lack a field: a node without parameters, a node without name,
\* no connection map, no node list, a connection entry without target, nothing
MalformedGraphs ==
    { [name |-> "Flow",
       nodes |-> << [id |-> "id1", name |-> "A", type |-> "n8n-nodes-base.set",
                     typeVersion |-> 1, position |-> <<0, 0>>] >>,
       connections |-> EmptyDict],
      [name |-> "Flow",
       nodes |-> << [id |-> "id1", type |-> "n8n-nodes-base.set", typeVersion |-> 1,
                     position |-> <<0, 0>>, parameters |-> EmptyDict] >>,
       connections |-> EmptyDict],
      [name |-> "Flow",
       nodes |-> WithIds(<< VNode("A", "n8n-nodes-base.manualTrigger", <<0, 0>>) >>)],
      [name |-> "Flow", connections |-> EmptyDict],
      [name |-> "Flow",
       nodes |-> WithIds(<< VNode("A", "n8n-nodes-base.manualTrigger", <<0, 0>>) >>),
       connections |-> [A |-> [main |-> << << [type |-> "main", index |-> 0] >> >>]]],
      EmptyDict }

ValInit ==
    /\ \/ \E nodes \in SeqsUpTo(ValNodePool, MaxValNodes) :
          \E entries \in SeqsUpTo(ConnEntryPool, MaxConnEntries) :
             vwf = ValGraph(nodes, entries)
       \/ vwf \in MalformedGraphs
    /\ vres = None
    /\ vexc = None
    /\ vprev = None
    /\ vadded = None

\* a caller builds the WorkflowJSON and validates it (routers/generate.py, lines
\* 36-39; routers/validate.py builds it from the request body)
ValidateWorkflow ==
    /\ vres = None
    /\ vexc = None
    /\ IF WorkflowJSON_raises(vwf)
       THEN /\ vexc' = Some("ValidationError")
            /\ vres' = vres
       ELSE /\ vres' = Some(validate_workflow(WorkflowJSON(vwf)))
            /\ vexc' = vexc
    /\ UNCHANGED <<vwf, vprev, vadded>>

\* a validated graph gets one more node, without connections
AddFreshNode ==
    /\ vres # None
    /\ vadded = None
    /\ \E n \in FreshNodes :
         /\ vadded' = Some(n)
         /\ vwf' = [vwf EXCEPT !.nodes = Append(@, Put(n, "id", NodeId(Len(@) + 1)))]
    /\ vprev' = vres
    /\ vres' = None
    /\ UNCHANGED vexc

PipeIdle == UNCHANGED pipeVars

ValNext ==
    \/ ValidateWorkflow /\ PipeIdle /\ RepIdle /\ UnitIdle
    \/ AddFreshNode /\ PipeIdle /\ RepIdle /\ UnitIdle

-----------------------------------------------------------------------------
(* _validate_and_refine called again on its own output.                     *)

MaxPasses == 2

\* a repaired five-node flow: every field, binding, error policy and note is there
FullGraph == _validate_and_refine(CandGood, "standard", 0)

\* a flow whose nodes bring error-policy fields of their own: a webhook entry,
\* a request that stops on error and does not retry, a service node with a
\* retry count only, a transformation, a second entry with a retry flag
CandPolicies ==
    [name |-> "Policy Flow",
     nodes |-> << [name |-> "Hook", type |-> "n8n-nodes-base.webhook",
                   parameters |-> [path |-> "in"]],
                  [name |-> "Call", type |-> "n8n-nodes-base.httpRequest",
                   parameters |-> [method |-> "GET", url |-> "https://example.org"],
                   onError |-> "stopWorkflow", retryOnFail |-> FALSE],
                  [name |-> "Send Slack", type |-> "n8n-nodes-base.slack",
                   maxTries |-> 5],
                  [name |-> "Prepare", type |-> "n8n-nodes-base.set"],
                  [name |-> "Nightly", type |-> "n8n-nodes-base.scheduleTrigger",
                   retryOnFail |-> TRUE] >>,
     connections |-> ChainConnections(<<"Hook", "Call", "Send Slack", "Prepare">>)]

RepairInputs == CandidateGraphs \cup {FullGraph, CandPolicies}

RepInit ==
    /\ rorig \in RepairInputs
    /\ rwf = rorig
    /\ rfirst = None
    /\ rpasses = 0
    /\ ruuids = 100

\* one call of _validate_and_refine(workflow, context, complexity)
RefineCall ==
    /\ rpasses < MaxPasses
    /\ \E refined \in {_validate_and_refine(rwf, complexity, ruuids)} :
         /\ rwf' = refined
         /\ rfirst' = IF rpasses = 0 THEN Some(refined) ELSE rfirst
    /\ ruuids' = ruuids + RefineUuids(rwf, complexity)
    /\ rpasses' = rpasses + 1
    /\ UNCHANGED rorig

RepNext == RefineCall /\ PipeIdle /\ ValIdle /\ UnitIdle

RepFixed ==
    /\ rorig = EmptyDict
    /\ rwf = EmptyDict
    /\ rfirst = None
    /\ rpasses = 0
    /\ ruuids = 0

ValFixed ==
    /\ vwf = EmptyDict
    /\ vres = None
    /\ vexc = None
    /\ vprev = None
    /\ vadded = None

-----------------------------------------------------------------------------
(* validate_node called on single nodes: every type of the registry and the *)
(* unregistered tags, with every subset of the required parameter keys and  *)
(* one more key, with no, an empty, a foreign and the expected credential   *)
(* binding, with and without the error policy fields.                       *)

Binding == [id |-> "{{CREDENTIAL_ID}}", name |-> "account"]

\* the parameter bags tried for a type
ParameterBags(t) ==
    LET required == Get(SchemaOf(t), "required", <<>>)
        keys == { required[i] : i \in 1..Len(required) } \cup { "notes" }
    IN  { [k \in S |-> "x"] : S \in SUBSET keys }

\* the 'credentials' values tried for a type: absent, {}, another kind, the kind
CredentialBags(t) ==
    { None, Some(EmptyDict), Some([otherApi |-> Binding]) }
      \cup (IF get_credential_type(t) # ""
            THEN { Some([k \in {get_credential_type(t)} |-> Binding]) }
            ELSE {})

PolicyFields == SUBSET { "onError", "retryOnFail" }

NodeUnderTest(t, bag, cred, policy) ==
    [k \in {"name", "type", "parameters"}
            \cup (IF cred # None THEN {"credentials"} ELSE {}) \cup policy |->
        CASE k = "name" -> "N"
          [] k = "type" -> t
          [] k = "parameters" -> bag
          [] k = "credentials" -> cred[1]
          [] k = "onError" -> "continueRegularOutput"
          [] k = "retryOnFail" -> TRUE]

NodeInit ==
    /\ \E t \in RegisteredTypes \cup UnregisteredTypes :
       \E bag \in ParameterBags(t) : \E cred \in CredentialBags(t) :
       \E policy \in PolicyFields :
          nnode = NodeUnderTest(t, bag, cred, policy)
    /\ nres = None

\* one call of NodeSchemaValidator.validate_node(node)
ValidateNode ==
    /\ nres = None
    /\ nres' = Some(validate_node(nnode))
    /\ UNCHANGED nnode

NodeNext ==
    ValidateNode /\ PipeIdle /\ ValIdle /\ RepIdle /\ UNCHANGED <<scoreVars, concVars, buildVars>>

NodeFixed ==
    /\ nnode = EmptyDict
    /\ nres = None

-----------------------------------------------------------------------------
(* QualityValidator.validate and generate_feedback called on graphs built   *)
(* from a description: an optional entry node, feature nodes, filler nodes, *)
(* service nodes (bound, bound to a foreign kind, unbound), error policies  *)
(* on the first processable nodes, sticky notes, chained or unconnected.    *)

MaxServiceNodes == 5

\* the entry nodes WorkflowGenerator._create_trigger_node emits
BuilderTriggerTypes ==
    { "n8n-nodes-base.webhook", "n8n-nodes-base.scheduleTrigger",
      "n8n-nodes-base.emailReadImap", "n8n-nodes-base.manualTrigger" }

FeatureTypes ==
    << "n8n-nodes-base.if", "n8n-nodes-base.merge", "n8n-nodes-base.set",
       "n8n-nodes-base.code" >>

FillerType == "n8n-nodes-base.wait"

ServiceType == "n8n-nodes-base.slack"

NameAt(i) ==
    << "n01", "n02", "n03", "n04", "n05", "n06", "n07", "n08", "n09", "n10",
       "n11", "n12", "n13", "n14", "n15", "n16", "n17", "n18", "n19", "n20",
       "n21", "n22", "n23", "n24", "n25", "n26", "n27", "n28", "n29", "n30",
       "n31", "n32", "n33", "n34", "n35", "n36", "n37", "n38", "n39", "n40",
       "n41", "n42", "n43", "n44", "n45", "n46", "n47", "n48", "n49", "n50" >>[i]

\* a parameter bag holding every required key of the type
RequiredBag(t) ==
    LET required == Get(SchemaOf(t), "required", <<>>)
    IN  [k \in { required[i] : i \in 1..Len(required) } |-> "x"]

\* the description of a graph
Shape(trig, kinds, filler, s, b, w, e, notes, conn) ==
    [trig |-> trig, kinds |-> kinds, filler |-> filler, s |-> s, b |-> b, w |-> w,
     e |-> e, notes |-> notes, conn |-> conn]

\* the node types of a described graph, in order
ShapeTypes(p) ==
    (IF p.trig = "" THEN <<>> ELSE <<p.trig>>)
    \o SubSeq(FeatureTypes, 1, p.kinds)
    \o [i \in 1..p.filler |-> FillerType]
    \o [i \in 1..p.s |-> ServiceType]
    \o [i \in 1..p.notes |-> StickyNoteType]

ShapeNode(p, types, i) ==
    LET t == types[i]
        firstService == Len(types) - p.notes - p.s + 1
        j == i - firstService + 1
        processableBefore ==
            Cardinality({ k \in 1..i : ~EndsWithTrigger(types[k]) /\ types[k] # StickyNoteType })
        cred == IF t # ServiceType \/ j > p.b + p.w THEN None
                ELSE IF j <= p.b THEN Some([slackApi |-> Binding])
                ELSE Some([otherApi |-> Binding])
        policy == ~EndsWithTrigger(t) /\ t # StickyNoteType /\ processableBefore <= p.e
    IN  [k \in {"id", "name", "type", "typeVersion", "position", "parameters"}
                \cup (IF cred # None THEN {"credentials"} ELSE {})
                \cup (IF policy THEN {"onError"} ELSE {}) |->
            CASE k = "id" -> NameAt(i)
              [] k = "name" -> NameAt(i)
              [] k = "type" -> t
              [] k = "typeVersion" -> 1
              [] k = "position" -> <<220 * i, 0>>
              [] k = "parameters" -> RequiredBag(t)
              [] k = "credentials" -> cred[1]
              [] k = "onError" -> "continueRegularOutput"]

\* the described graph: its nodes, and a chain over the nodes that are no notes
ShapeGraph(p) ==
    With(ShapeTypes(p),
         LAMBDA types :
           [name |-> "Flow",
            nodes |-> [i \in 1..Len(types) |-> ShapeNode(p, types, i)],
            connections |->
                IF p.conn = "chain"
                THEN ChainConnections([i \in 1..(Len(types) - p.notes) |-> NameAt(i)])
                ELSE EmptyDict])

\* service nodes: s of them, b bound, w bound to a foreign kind only
ServiceShapes ==
    { <<s, b, w>> \in (0..MaxServiceNodes) \X (0..MaxServiceNodes) \X (0..1) : b + w <= s }

\* entry nodes and connectivity
EntryShapes ==
    { Shape(trig, 1, filler, 0, 0, 0, 0, notes, conn) :
        trig \in BuilderTriggerTypes \cup {"", "n8n-nodes-base.errorTrigger"},
        filler \in {0, 2}, notes \in {0, 1}, conn \in {"chain", "none"} }

\* node counts around the steps 10, 15, 25, 35
CountShapes ==
    { Shape("n8n-nodes-base.manualTrigger", 3, filler, 0, 0, 0, 2, notes, "chain") :
        filler \in {1, 5, 6, 10, 11, 20, 21, 30, 31}, notes \in {0, 5} }

\* credentials and error policies
CredentialShapes ==
    { Shape("n8n-nodes-base.manualTrigger", 0, filler, x[1], x[2], x[3], e, 0, "chain") :
        x \in ServiceShapes, filler \in {0, 11}, e \in {0, 1, 3} }

\* notes and features
NoteShapes ==
    { Shape("n8n-nodes-base.scheduleTrigger", kinds, 4, 2, 2, 0, 4, notes, "chain") :
        kinds \in 0..4, notes \in {0, 2, 3, 4, 5, 7, 8} }

\* the spec's scenario: 20 nodes, 9 of them service nodes, all bound, no policy, no note
ScenarioShape == Shape("n8n-nodes-base.manualTrigger", 4, 6, 9, 9, 0, 0, 0, "chain")

ScoreGraphs ==
    { ShapeGraph(p) : p \in EntryShapes \cup CountShapes \cup CredentialShapes
                             \cup NoteShapes \cup {ScenarioShape} }
    \cup CandidateGraphs

ScoreInit ==
    /\ sgraph \in ScoreGraphs
    /\ stier \in Complexities
    /\ sres = None
    /\ sfeedback = None
    /\ sprev = None
    /\ sbound = None

\* one call of QualityValidator.validate(workflow, complexity)
QualityValidate ==
    /\ sres = None
    /\ sres' = Some(validate(sgraph, stier))
    /\ UNCHANGED <<sgraph, stier, sfeedback, sprev, sbound>>

\* one call of QualityValidator.generate_feedback(validation_result)
GenerateFeedback ==
    /\ sres # None
    /\ ~sres[1].raised
    /\ sfeedback = None
    /\ sfeedback' = Some(IF generate_feedback_raises(sres[1])
                         THEN [raised |-> TRUE, exception |-> "KeyError"]
                         ELSE [raised |-> FALSE, feedback |-> generate_feedback(sres[1])])
    /\ UNCHANGED <<sgraph, stier, sres, sprev, sbound>>

\* the node gets a binding under the credential kind of its type
WithBinding(node) ==
    [k \in DOMAIN node \cup {"credentials"} |->
        IF k = "credentials"
        THEN [c \in (IF Has(node, "credentials") THEN DOMAIN node.credentials ELSE {})
                     \cup {get_credential_type(TypeOf(node))} |-> Binding]
        ELSE node[k]]

\* a scored graph gets a correct binding on one credential-requiring node that
\* had none, and is handed to validate again
AddBinding ==
    /\ sres # None
    /\ ~sres[1].raised
    /\ sbound = None
    /\ \E i \in 1..Len(NodesOf(sgraph)) :
         /\ requires_credentials(TypeOf(sgraph.nodes[i]))
         /\ ~HasProperCredentials(sgraph.nodes[i])
         /\ sgraph' = [sgraph EXCEPT !.nodes[i] = WithBinding(@)]
         /\ sbound' = Some(i)
    /\ sprev' = sres
    /\ sres' = None
    /\ sfeedback' = None
    /\ UNCHANGED stier

ScoreNext ==
    \/ QualityValidate /\ PipeIdle /\ ValIdle /\ RepIdle /\ UNCHANGED <<nodeVars, concVars, buildVars>>
    \/ GenerateFeedback /\ PipeIdle /\ ValIdle /\ RepIdle /\ UNCHANGED <<nodeVars, concVars, buildVars>>
    \/ AddBinding /\ PipeIdle /\ ValIdle /\ RepIdle /\ UNCHANGED <<nodeVars, concVars, buildVars>>

ScoreFixed ==
    /\ sgraph = EmptyDict
    /\ stier = "standard"
    /\ sres = None
    /\ sfeedback = None
    /\ sprev = None
    /\ sbound = None

-----------------------------------------------------------------------------
(* Two calls of EnhancedWorkflowGenerator.generate on the one generator     *)
(* instance, interleaved pass by pass.  A call is the record of its locals; *)
(* the instance holds the registry and the scorer, built once by the        *)
(* constructors.  The uuid4 values of a call are named by the call's own    *)
(* count of draws.                                                          *)

Runs == {1, 2}

ConcTiers == { "simple", "standard" }

\* the replies of the synthesis collaborator: none, a graph that is accepted,
\* a graph that is not
ConcOutcomes ==
    { [kind |-> "nothing"], [kind |-> "json", value |-> CandEighty],
      [kind |-> "json", value |-> CandMid] }

\* the attributes set by NodeSchemaValidator.__init__ and QualityValidator.__init__
SharedInit ==
    [schemas |-> Schemas,
     min_node_count |-> [c \in {"simple", "standard", "complex"} |-> min_node_count(c)],
     min_sticky_notes |-> min_sticky_notes,
     min_quality_score |-> min_quality_score]

\* lines 61-82: the locals of a call when the loop is entered
RunInit(c) ==
    [pc |-> "AwaitingCandidate", complexity |-> c,
     prompt |-> _build_generation_prompt(c), attempt |-> 0, workflow |-> None,
     stage |-> 0, best_workflow |-> None, best_score |-> 0, result |-> None,
     uuids |-> 0, replies |-> <<>>]

\* lines 84-93: one synthesis request and its reply
RunRequest(run, outcome) ==
    LET raw == _generate_workflow(outcome)
    IN  IF IsFalsy(raw)
        THEN [run EXCEPT !.attempt = @ + 1, !.workflow = None, !.stage = 0,
                         !.replies = Append(@, outcome)]
        ELSE [run EXCEPT !.pc = "Repairing", !.workflow = raw, !.stage = 0,
                         !.replies = Append(@, outcome)]

\* line 96: the next pass of _validate_and_refine
RunRepair(run) ==
    [run EXCEPT !.stage = @ + 1,
                !.workflow = Some(RepairStage(run.stage + 1, run.workflow[1],
                                              run.complexity, run.uuids)),
                !.uuids = @ + StageUuids(run.stage + 1, run.workflow[1], run.complexity),
                !.pc = IF run.stage + 1 = NumStages THEN "Scoring" ELSE "Repairing"]

\* the best score that the call at `r` compares with: another call's slot
BestScoreOf_First(rs, r) == rs[1].best_score

\* line 104 reads best_score, a local of the call
BestScoreOf(rs, r) == rs[r].best_score

\* lines 99-124: score, track the best, accept or fold the feedback in
RunScore(run, best) ==
    With(validate(run.workflow[1], run.complexity),
         LAMBDA qr :
           IF qr.raised THEN [run EXCEPT !.pc = "Raised"]
           ELSE With([run EXCEPT
                        !.best_score = IF IsBetter(qr.score, best) THEN qr.score ELSE @,
                        !.best_workflow = IF IsBetter(qr.score, best)
                                          THEN run.workflow ELSE @],
                     LAMBDA tracked :
                       IF Accepts(qr)
                       THEN [tracked EXCEPT
                               !.pc = "Accepted",
                               !.result = Some(AcceptedResult(run.workflow[1], qr,
                                                              run.attempt))]
                       ELSE IF run.attempt < max_attempts - 1
                            THEN IF generate_feedback_raises(qr)
                                 THEN [tracked EXCEPT !.pc = "Raised"]
                                 ELSE [tracked EXCEPT
                                         !.pc = "AwaitingCandidate",
                                         !.prompt = _update_prompt_with_feedback(
                                                        @, generate_feedback(qr)),
                                         !.attempt = @ + 1]
                            ELSE [tracked EXCEPT !.pc = "AwaitingCandidate",
                                                 !.attempt = @ + 1]))

\* lines 126-133: the loop is over
RunReturnBest(run) ==
    [run EXCEPT !.pc = "Exhausted",
                !.result = Some(ExhaustedResult(run.best_workflow, run.best_score))]

ConcInit ==
    /\ runs \in [Runs -> { RunInit(c) : c \in ConcTiers }]
    /\ shared = SharedInit

ConcRequest(r) ==
    /\ runs[r].pc = "AwaitingCandidate"
    /\ runs[r].attempt < max_attempts
    /\ \E outcome \in ConcOutcomes :
         runs' = [runs EXCEPT ![r] = RunRequest(@, outcome)]
    /\ UNCHANGED shared

ConcRepair(r) ==
    /\ runs[r].pc = "Repairing"
    /\ runs' = [runs EXCEPT ![r] = RunRepair(@)]
    /\ UNCHANGED shared

ConcScore(r) ==
    /\ runs[r].pc = "Scoring"
    /\ \E next \in { RunScore(runs[r], BestScoreOf(runs, r)) } :
         runs' = [runs EXCEPT ![r] = next]
    /\ UNCHANGED shared

ConcReturnBest(r) ==
    /\ runs[r].pc = "AwaitingCandidate"
    /\ runs[r].attempt = max_attempts
    /\ runs' = [runs EXCEPT ![r] = RunReturnBest(@)]
    /\ UNCHANGED shared

ConcIdle == UNCHANGED <<nodeVars, scoreVars, buildVars>>

ConcNext ==
    \/ \E r \in Runs : ConcRequest(r) /\ PipeIdle /\ ValIdle /\ RepIdle /\ ConcIdle
    \/ \E r \in Runs : ConcRepair(r) /\ PipeIdle /\ ValIdle /\ RepIdle /\ ConcIdle
    \/ \E r \in Runs : ConcScore(r) /\ PipeIdle /\ ValIdle /\ RepIdle /\ ConcIdle
    \/ \E r \in Runs : ConcReturnBest(r) /\ PipeIdle /\ ValIdle /\ RepIdle /\ ConcIdle

ConcFixed ==
    /\ runs = [r \in Runs |-> RunInit("standard")]
    /\ shared = SharedInit

-----------------------------------------------------------------------------
(* Graph Builder: WorkflowGenerator (workflow_generator.py).  A             *)
(* requirements record is a dict with any subset of the recognized keys:    *)
(* the flags are booleans, 'trigger' and 'database' strings, 'outputs' a    *)
(* list of strings, 'num_outputs' an integer.  'needs_notification' is      *)
(* tested as a flag (line 156) and read as a string (line 789): its value   *)
(* is [kind |-> "bool", value |-> b] or [kind |-> "str", value |-> s].      *)
(* The JavaScript bodies of the function nodes are constants of the code    *)
(* and are kept as a label.  The nodes are built in the order in which the  *)
(* code draws their ids; the ids are put on at the end.                     *)

\* WorkflowGenerator.__init__ (lines 19-22)
BuilderInit ==
    [position_x |-> 240, position_y |-> 300, spacing_x |-> 220, spacing_y |-> 150]

PyBool(b) == [kind |-> "bool", value |-> b]

PyStr(s) == [kind |-> "str", value |-> s]

\* requirements.get(k) of a flag
Flag(requirements, k) == Has(requirements, k) /\ requirements[k]

\* requirements.get("needs_notification") as a condition
NeedsNotification(requirements) ==
    /\ Has(requirements, "needs_notification")
    /\ IF requirements.needs_notification.kind = "bool"
       THEN requirements.needs_notification.value
       ELSE requirements.needs_notification.value # ""

\* "notification" in s.lower(), over the strings of the model
ContainsNotification(s) == s \in { "send a notification", "Notification" }

\* str.title(), over the strings of the model
Title(s) ==
    CASE s = "postgres" -> "Postgres"
      [] s = "mysql" -> "Mysql"
      [] s = "webhook" -> "Webhook"
      [] s = "schedule" -> "Schedule"
      [] s = "email" -> "Email"
      [] s = "cron" -> "Cron"
      [] s = "slack" -> "Slack"
      [] s = "database" -> "Database"
      [] s = "processing" -> "Processing"
      [] s = "workflow" -> "Workflow"
      [] OTHER -> s

\* f"n8n-nodes-base.{database}", over the databases of the model
DatabaseType(database) ==
    CASE database = "postgres" -> "n8n-nodes-base.postgres"
      [] database = "mysql" -> "n8n-nodes-base.mysql"

\* WorkflowGenerator.calculate_complexity
calculate_complexity(requirements) ==
    LET total ==
            1
            + (IF Get(requirements, "trigger", "") = "webhook" THEN 1 ELSE 0)
            + (IF Flag(requirements, "needs_auth") THEN 1 ELSE 0)
            + (IF Flag(requirements, "needs_validation") THEN 2 ELSE 0)
            + (IF Flag(requirements, "needs_duplicate_check") THEN 2 ELSE 0)
            + (IF Flag(requirements, "needs_transformation") THEN 1 ELSE 0)
            + (IF Flag(requirements, "needs_scoring") THEN 2 ELSE 0)
            + (IF Flag(requirements, "has_branching") THEN 2 ELSE 0)
            + (IF Flag(requirements, "has_loops") THEN 3 ELSE 0)
            + (IF Flag(requirements, "needs_error_handling") THEN 2 ELSE 0)
            + (IF Flag(requirements, "needs_retry_logic") THEN 2 ELSE 0)
            + Get(requirements, "num_outputs", 1)
    IN  IF total < 10 THEN total ELSE 10

\* a node as the builder writes it, before its id
BuiltNode(name, type, position, parameters) ==
    [name |-> name, type |-> type, typeVersion |-> 1, position |-> position,
     parameters |-> parameters]

\* the same with a credential binding
BuiltServiceNode(name, type, position, parameters, kind, id, label) ==
    [name |-> name, type |-> type, typeVersion |-> 1, position |-> position,
     parameters |-> parameters,
     credentials |-> [k \in {kind} |-> [id |-> id, name |-> label]]]

\* [position[0] + dx, position[1] + dy]
Moved(position, dx, dy) == <<position[1] + dx, position[2] + dy>>

\* mutant: the connection is entered under the target and points at the source
_connect_nodes_Reversed(connections, from_node, to_node, output_index) ==
    LET from_name == to_node.name
        main == IF from_name \in DOMAIN connections
                THEN connections[from_name].main ELSE << <<>> >>
        padded == main \o [i \in 1..(output_index + 1 - Len(main)) |-> <<>>]
    IN  Put(connections, from_name,
            [main |-> [padded EXCEPT ![output_index + 1] = Append(@, Conn(from_node.name))]])

\* WorkflowGenerator._connect_nodes
_connect_nodes(connections, from_node, to_node, output_index) ==
    LET from_name == from_node.name
        main == IF from_name \in DOMAIN connections
                THEN connections[from_name].main ELSE << <<>> >>
        padded == main \o [i \in 1..(output_index + 1 - Len(main)) |-> <<>>]
    IN  Put(connections, from_name,
            [main |-> [padded EXCEPT ![output_index + 1] = Append(@, Conn(to_node.name))]])

\* lines 920-924: the lists of one port merged place by place
MergePort(target_list, source_list) ==
    [i \in 1..(IF Len(target_list) > Len(source_list)
               THEN Len(target_list) ELSE Len(source_list)) |->
        IF i > Len(source_list) THEN target_list[i]
        ELSE IF i > Len(target_list) THEN source_list[i]
        ELSE target_list[i] \o source_list[i]]

\* WorkflowGenerator._merge_connections
_merge_connections(target, source) ==
    [node_name \in DOMAIN target \cup DOMAIN source |->
        IF node_name \notin DOMAIN source THEN target[node_name]
        ELSE IF node_name \notin DOMAIN target THEN source[node_name]
        ELSE [conn_type \in DOMAIN target[node_name] \cup DOMAIN source[node_name] |->
                IF conn_type \notin DOMAIN source[node_name]
                THEN target[node_name][conn_type]
                ELSE IF conn_type \notin DOMAIN target[node_name]
                THEN source[node_name][conn_type]
                ELSE MergePort(target[node_name][conn_type],
                               source[node_name][conn_type])]]

\* WorkflowGenerator._create_trigger_node
_create_trigger_node(self, requirements, position) ==
    LET trigger_type == Get(requirements, "trigger", "webhook")
        node ==
            CASE trigger_type = "webhook" ->
                   [name |-> "Webhook Trigger", type |-> "n8n-nodes-base.webhook",
                    typeVersion |-> 1, position |-> position,
                    webhookId |-> "uuid4",
                    parameters |-> [httpMethod |-> "POST",
                                    path |-> Get(requirements, "webhook_path",
                                                 "workflow-trigger"),
                                    responseMode |-> "onReceived",
                                    options |-> EmptyDict]]
              [] trigger_type = "schedule" ->
                   BuiltNode("Schedule Trigger", "n8n-nodes-base.scheduleTrigger", position,
                             [rule |-> [interval |->
                                 << [field |-> Get(requirements, "schedule_frequency",
                                                   "hour")] >>]])
              [] trigger_type = "email" ->
                   BuiltServiceNode("Email Trigger", "n8n-nodes-base.emailReadImap", position,
                                    [mailbox |-> "INBOX",
                                     options |-> [allowUnauthorizedCerts |-> FALSE]],
                                    "imap", "1", "IMAP Account (to be configured)")
              [] OTHER ->
                   BuiltNode("Manual Trigger", "n8n-nodes-base.manualTrigger", position,
                             EmptyDict)
    IN  [node |-> node, position |-> Moved(position, self.spacing_x, 0)]

\* WorkflowGenerator._create_auth_node
_create_auth_node(self, position) ==
    [node |-> BuiltNode("Validate API Key", "n8n-nodes-base.function", position,
                        [functionCode |-> "// Validate API key from header"]),
     position |-> Moved(position, self.spacing_x, 0)]

\* WorkflowGenerator._create_validation_flow
_create_validation_flow(self, position) ==
    LET validate_data ==
            BuiltNode("Validate Data", "n8n-nodes-base.function", position,
                      [functionCode |-> "// Comprehensive data validation"])
        if_position == Moved(position, self.spacing_x, 0)
        if_node ==
            BuiltNode("Is Valid?", "n8n-nodes-base.if", if_position,
                      [conditions |-> [boolean |->
                          << [value1 |-> "={{$json.validation.is_valid}}",
                              value2 |-> TRUE] >>]])
        error_node ==
            BuiltNode("Log Validation Error", "n8n-nodes-base.function",
                      Moved(if_position, self.spacing_x, self.spacing_y),
                      [functionCode |-> "console.error('Validation failed:'"])
        connected == _connect_nodes(EmptyDict, validate_data, if_node, 0)
        \* lines 388-395: the false branch of the IF node
        branches == IF if_node.name \in DOMAIN connected
                    THEN connected[if_node.name].main ELSE << <<>>, <<>> >>
    IN  [nodes |-> <<validate_data, if_node, error_node>>,
         connections |-> Put(connected, if_node.name,
                             [main |-> [branches EXCEPT ![2] = << Conn(error_node.name) >>]]),
         position |-> Moved(if_position, self.spacing_x, 0),
         success_node |-> if_node, error_node |-> error_node]

\* WorkflowGenerator._create_duplicate_check_flow
_create_duplicate_check_flow(self, requirements, position) ==
    LET database == Get(requirements, "database", "postgres")
        check_node ==
            BuiltServiceNode("Check for Duplicates", DatabaseType(database), position,
                             [operation |-> "executeQuery",
                              query |-> "SELECT id FROM records WHERE email = $1 LIMIT 1",
                              additionalFields |-> [queryParameters |-> "={{$json.email}}"]],
                             database, "1",
                             <<Title(database), " Database (to be configured)">>)
        if_position == Moved(position, self.spacing_x, 0)
        if_node ==
            BuiltNode("Is New Record?", "n8n-nodes-base.if", if_position,
                      [conditions |-> [number |->
                          << [value1 |-> "={{$json.length || 0}}",
                              operation |-> "equal", value2 |-> 0] >>]])
    IN  [nodes |-> <<check_node, if_node>>,
         connections |-> _connect_nodes(EmptyDict, check_node, if_node, 0),
         position |-> Moved(if_position, self.spacing_x, 0),
         new_node |-> if_node]

\* WorkflowGenerator._create_scoring_node
_create_scoring_node(self, position) ==
    [node |-> BuiltNode("Calculate Score", "n8n-nodes-base.function", position,
                        [functionCode |-> "// Scoring algorithm"]),
     position |-> Moved(position, self.spacing_x, 0)]

PriorityValues(level, speed) ==
    [values |-> [string |-> << [name |-> "priority_level", value |-> level],
                                [name |-> "processing_speed", value |-> speed] >>]]

\* WorkflowGenerator._create_branching_flow
_create_branching_flow(self, requirements, position) ==
    LET switch_node ==
            BuiltNode("Route by Priority", "n8n-nodes-base.switch", position,
                      [mode |-> "rules",
                       rules |-> [rules |->
                           << [value1 |-> "={{$json.score}}", operation |-> "largerEqual",
                               value2 |-> 80, output |-> 0],
                              [value1 |-> "={{$json.score}}", operation |-> "largerEqual",
                               value2 |-> 50, output |-> 1] >>],
                       fallbackOutput |-> 2])
        high_node ==
            BuiltNode("High Priority Processing", "n8n-nodes-base.set",
                      Moved(position, self.spacing_x, 0 - self.spacing_y),
                      PriorityValues("high", "immediate"))
        med_node ==
            BuiltNode("Medium Priority Processing", "n8n-nodes-base.set",
                      Moved(position, self.spacing_x, 0),
                      PriorityValues("medium", "standard"))
        low_node ==
            BuiltNode("Low Priority Processing", "n8n-nodes-base.set",
                      Moved(position, self.spacing_x, self.spacing_y),
                      PriorityValues("low", "batched"))
        merge_pos == Moved(position, self.spacing_x * 2, 0)
        merge_node ==
            BuiltNode("Merge Paths", "n8n-nodes-base.merge", merge_pos, [mode |-> "append"])
        routed ==
            Put(EmptyDict, switch_node.name,
                [main |-> << << Conn(high_node.name) >>, << Conn(med_node.name) >>,
                             << Conn(low_node.name) >> >>])
    IN  [nodes |-> <<switch_node, high_node, med_node, low_node, merge_node>>,
         connections |->
             _connect_nodes(
                 _connect_nodes(
                     _connect_nodes(routed, high_node, merge_node, 0),
                     med_node, merge_node, 0),
                 low_node, merge_node, 0),
         position |-> <<merge_pos[1] + self.spacing_x, position[2]>>,
         merge_node |-> merge_node]

\* outputs[0] if outputs else "email"  (lines 666-667)
PrimaryOutput(requirements) ==
    LET outputs == Get(requirements, "outputs", <<"email">>)
    IN  IF Len(outputs) > 0 THEN outputs[1] ELSE "email"

\* WorkflowGenerator._create_action_nodes
_create_action_nodes(self, requirements, position) ==
    LET primary_output == PrimaryOutput(requirements)
        database == Get(requirements, "database", "postgres")
        node ==
            CASE primary_output = "email" ->
                   BuiltServiceNode("Send Email", "n8n-nodes-base.gmail", position,
                                    [resource |-> "message", operation |-> "send",
                                     sendTo |-> "={{$json.email}}",
                                     subject |-> "={{$json.subject || 'Workflow Notification'}}",
                                     message |-> "={{$json.body || $json.message}}"],
                                    "gmailOAuth2", "1", "Gmail account (to be configured)")
              [] primary_output = "slack" ->
                   BuiltServiceNode("Post to Slack", "n8n-nodes-base.slack", position,
                                    [resource |-> "message", operation |-> "post",
                                     channel |-> "#general", text |-> "={{$json.message}}"],
                                    "slackApi", "2", "Slack API (to be configured)")
              [] primary_output = "database" ->
                   BuiltServiceNode("Save to Database", DatabaseType(database), position,
                                    [operation |-> "insert", table |-> "workflow_results"],
                                    database, "1",
                                    <<Title(database), " (to be configured)">>)
              [] OTHER ->
                   BuiltNode("Send to Webhook", "n8n-nodes-base.httpRequest", position,
                             [method |-> "POST", url |-> "={{$json.webhook_url}}",
                              options |-> EmptyDict])
    IN  [node |-> node, connections |-> EmptyDict,
         position |-> Moved(position, self.spacing_x, 0)]

\* WorkflowGenerator._create_logging_node
_create_logging_node(self, requirements, position) ==
    LET database == Get(requirements, "database", "postgres")
    IN  [node |-> BuiltServiceNode("Log to Database", DatabaseType(database), position,
                                   [operation |-> "insert", table |-> "workflow_logs",
                                    columns |-> "workflow_id,execution_id,data,timestamp",
                                    additionalFields |-> EmptyDict],
                                   database, "1",
                                   <<Title(database), " (to be configured)">>),
         position |-> Moved(position, self.spacing_x, 0)]

\* line 789 raises AttributeError: 'slack' is not among the outputs and the
\* value of 'needs_notification' is a bool, which has no lower()
_create_notification_nodes_raises(requirements) ==
    LET outputs == Get(requirements, "outputs", <<>>)
    IN  /\ \A i \in 1..Len(outputs) : outputs[i] # "slack"
        /\ Has(requirements, "needs_notification")
        /\ requirements.needs_notification.kind = "bool"

\* WorkflowGenerator._create_notification_nodes, when it does not raise
_create_notification_nodes(self, requirements, position) ==
    LET outputs == Get(requirements, "outputs", <<>>)
        wanted == \/ \E i \in 1..Len(outputs) : outputs[i] = "slack"
                  \/ ContainsNotification(
                         Get(requirements, "needs_notification", PyStr("")).value)
        slack_node ==
            BuiltServiceNode("Notify Slack", "n8n-nodes-base.slack", position,
                             [resource |-> "message", operation |-> "post",
                              channel |-> "#notifications",
                              text |-> "Workflow completed successfully for: {{$json.name || $json.email}}"],
                             "slackApi", "2", "Slack API (to be configured)")
    IN  [nodes |-> IF wanted THEN <<slack_node>> ELSE <<>>,
         connections |-> EmptyDict,
         position |-> Moved(position, self.spacing_x, 0)]

\* mutant: the error log is connected to the admin alert whether or not the
\* alert node is made
_create_error_workflow_Dangling(self, requirements) ==
    LET error_trigger ==
            BuiltNode("Error Trigger", "n8n-nodes-base.errorTrigger",
                      <<self.position_x, self.position_y + 400>>, EmptyDict)
        log_error ==
            BuiltNode("Log Error Details", "n8n-nodes-base.function",
                      <<self.position_x + self.spacing_x, self.position_y + 400>>,
                      [functionCode |-> "const error = $input.item.json;"])
        alert_node ==
            BuiltNode("Alert Admin", "n8n-nodes-base.gmail",
                      <<self.position_x + self.spacing_x * 2, self.position_y + 400>>,
                      EmptyDict)
    IN  [nodes |-> IF Flag(requirements, "needs_error_alerts")
                   THEN <<error_trigger, log_error, alert_node>>
                   ELSE <<error_trigger, log_error>>,
         connections |->
             _connect_nodes(_connect_nodes(EmptyDict, error_trigger, log_error, 0),
                            log_error, alert_node, 0)]

\* WorkflowGenerator._create_error_workflow
_create_error_workflow(self, requirements) ==
    LET error_trigger ==
            BuiltNode("Error Trigger", "n8n-nodes-base.errorTrigger",
                      <<self.position_x, self.position_y + 400>>, EmptyDict)
        log_error ==
            BuiltNode("Log Error Details", "n8n-nodes-base.function",
                      <<self.position_x + self.spacing_x, self.position_y + 400>>,
                      [functionCode |-> "const error = $input.item.json;"])
        alert_node ==
            BuiltServiceNode("Alert Admin", "n8n-nodes-base.gmail",
                             <<self.position_x + self.spacing_x * 2, self.position_y + 400>>,
                             [resource |-> "message", operation |-> "send",
                              sendTo |-> "admin@company.com",
                              subject |-> "Workflow Error Alert",
                              message |-> "Error in workflow {{$json.workflow_id}}: {{$json.error_message}}"],
                             "gmailOAuth2", "1", "Gmail account (to be configured)")
        logged == _connect_nodes(EmptyDict, error_trigger, log_error, 0)
    IN  IF Flag(requirements, "needs_error_alerts")
        THEN [nodes |-> <<error_trigger, log_error, alert_node>>,
              connections |-> _connect_nodes(logged, log_error, alert_node, 0)]
        ELSE [nodes |-> <<error_trigger, log_error>>, connections |-> logged]

\* _generate_workflow_name raises IndexError at line 941: the output list is empty
_generate_workflow_name_raises(requirements, conversation) ==
    /\ conversation = None
    /\ Has(requirements, "outputs")
    /\ Len(requirements.outputs) = 0

\* WorkflowGenerator._generate_workflow_name, when it does not raise
_generate_workflow_name(requirements, conversation) ==
    IF conversation # None
    THEN LET words == conversation[1].initial_request
         IN  <<"title", SubSeq(words, 1, IF Len(words) < 5 THEN Len(words) ELSE 5),
               " Workflow">>
    ELSE <<Title(Get(requirements, "trigger", "workflow")), " to ",
           Title(Get(requirements, "outputs", <<"processing">>)[1]), " Workflow">>

\* generate, lines 87-97: the locals after the trigger stage
StageTrigger(self, requirements) ==
    With(_create_trigger_node(self, requirements, <<self.position_x, self.position_y>>),
         LAMBDA t : [nodes |-> <<t.node>>, connections |-> EmptyDict,
                     position |-> t.position, last_node |-> t.node])

\* a stage of one node: the node is appended and connected to the last node
AfterNode(st, made) ==
    [nodes |-> Append(st.nodes, made.node),
     connections |-> _connect_nodes(st.connections, st.last_node, made.node, 0),
     position |-> made.position, last_node |-> made.node]

\* a stage of several nodes: the nodes are appended, the connections merged,
\* the last node connected to the first of them
AfterFlow(st, flow, exit) ==
    [nodes |-> st.nodes \o flow.nodes,
     connections |-> _connect_nodes(_merge_connections(st.connections, flow.connections),
                                    st.last_node, flow.nodes[1], 0),
     position |-> flow.position, last_node |-> exit]

\* lines 99-104
StageAuth(self, requirements, st) ==
    IF Flag(requirements, "needs_auth")
    THEN AfterNode(st, _create_auth_node(self, st.position)) ELSE st

\* lines 106-113
StageValidation(self, requirements, st) ==
    IF Flag(requirements, "needs_validation")
    THEN With(_create_validation_flow(self, st.position),
              LAMBDA f : AfterFlow(st, f, f.success_node))
    ELSE st

\* lines 115-122
StageDuplicateCheck(self, requirements, st) ==
    IF Flag(requirements, "needs_duplicate_check")
    THEN With(_create_duplicate_check_flow(self, requirements, st.position),
              LAMBDA f : AfterFlow(st, f, f.new_node))
    ELSE st

\* lines 124-129
StageScoring(self, requirements, st) ==
    IF Flag(requirements, "needs_scoring")
    THEN AfterNode(st, _create_scoring_node(self, st.position)) ELSE st

\* lines 131-138
StageBranching(self, requirements, st) ==
    IF Flag(requirements, "has_branching") \/ calculate_complexity(requirements) > 6
    THEN With(_create_branching_flow(self, requirements, st.position),
              LAMBDA f : AfterFlow(st, f, f.merge_node))
    ELSE st

\* lines 140-146
StageAction(self, requirements, st) ==
    With(_create_action_nodes(self, requirements, st.position),
         LAMBDA a :
           [nodes |-> Append(st.nodes, a.node),
            connections |-> _connect_nodes(_merge_connections(st.connections, a.connections),
                                           st.last_node, a.node, 0),
            position |-> a.position, last_node |-> a.node])

\* lines 148-153
StageLogging(self, requirements, st) ==
    IF Flag(requirements, "needs_logging") \/ calculate_complexity(requirements) > 5
    THEN AfterNode(st, _create_logging_node(self, requirements, st.position)) ELSE st

\* the locals after stages 1 to 8
MainLine(self, requirements) ==
    With(StageTrigger(self, requirements), LAMBDA s1 :
    With(StageAuth(self, requirements, s1), LAMBDA s2 :
    With(StageValidation(self, requirements, s2), LAMBDA s3 :
    With(StageDuplicateCheck(self, requirements, s3), LAMBDA s4 :
    With(StageScoring(self, requirements, s4), LAMBDA s5 :
    With(StageBranching(self, requirements, s5), LAMBDA s6 :
    With(StageAction(self, requirements, s6), LAMBDA s7 :
         StageLogging(self, requirements, s7))))))))

\* lines 155-161: IndexError at notif_nodes[0] when no notification node was made
StageNotification_raises(self, requirements, st) ==
    /\ NeedsNotification(requirements)
    /\ _create_notification_nodes(self, requirements, st.position).nodes = <<>>

\* lines 155-161, when nothing raises; last_node is not assigned
StageNotification(self, requirements, st) ==
    IF NeedsNotification(requirements)
    THEN With(_create_notification_nodes(self, requirements, st.position),
              LAMBDA f : AfterFlow(st, f, st.last_node))
    ELSE st

\* lines 163-167
StageErrorWorkflow(self, requirements, st) ==
    IF Flag(requirements, "needs_error_handling")
    THEN With(_create_error_workflow(self, requirements),
              LAMBDA f : [st EXCEPT !.nodes = @ \o f.nodes,
                                    !.connections = _merge_connections(@, f.connections)])
    ELSE st

\* the uuid4 values drawn for a list of nodes: one per node, and the webhookId
Drawn(nodes) ==
    Len(nodes) + (IF Len(nodes) > 0 /\ Has(nodes[1], "webhookId") THEN 1 ELSE 0)

\* the nodes with the values drawn for them, the first being Uuid4(u + 1)
WithUuids(nodes, u) ==
    LET w == IF Len(nodes) > 0 /\ Has(nodes[1], "webhookId") THEN 1 ELSE 0
    IN  [i \in 1..Len(nodes) |->
            [k \in DOMAIN nodes[i] \cup {"id"} |->
                CASE k = "id" -> Uuid4(u + i + (IF i > 1 THEN w ELSE 0))
                  [] k = "webhookId" -> Uuid4(u + 2)
                  [] OTHER -> nodes[i][k]]]

\* the locals of generate where it ends: at the exception or at the return
generate_locals(self, requirements, conversation) ==
    With(MainLine(self, requirements),
         LAMBDA s8 :
           IF NeedsNotification(requirements)
              /\ _create_notification_nodes_raises(requirements)
           THEN [raised |-> TRUE, exception |-> "AttributeError", locals |-> s8]
           ELSE IF StageNotification_raises(self, requirements, s8)
           THEN [raised |-> TRUE, exception |-> "IndexError", locals |-> s8]
           ELSE With(StageErrorWorkflow(self, requirements,
                                        StageNotification(self, requirements, s8)),
                     LAMBDA s10 :
                       IF _generate_workflow_name_raises(requirements, conversation)
                       THEN [raised |-> TRUE, exception |-> "IndexError", locals |-> s10]
                       ELSE [raised |-> FALSE, locals |-> s10]))

\* the locals of generate after each of its stages, in order: stages 1 to 8,
\* and stages 9 and 10 when stage 9 does not raise
StageLocals(self, requirements) ==
    With(StageTrigger(self, requirements), LAMBDA s1 :
    With(StageAuth(self, requirements, s1), LAMBDA s2 :
    With(StageValidation(self, requirements, s2), LAMBDA s3 :
    With(StageDuplicateCheck(self, requirements, s3), LAMBDA s4 :
    With(StageScoring(self, requirements, s4), LAMBDA s5 :
    With(StageBranching(self, requirements, s5), LAMBDA s6 :
    With(StageAction(self, requirements, s6), LAMBDA s7 :
    With(StageLogging(self, requirements, s7), LAMBDA s8 :
         IF NeedsNotification(requirements)
            /\ (\/ _create_notification_nodes_raises(requirements)
                \/ StageNotification_raises(self, requirements, s8))
         THEN <<s1, s2, s3, s4, s5, s6, s7, s8>>
         ELSE With(StageNotification(self, requirements, s8), LAMBDA s9 :
                   <<s1, s2, s3, s4, s5, s6, s7, s8, s9,
                     StageErrorWorkflow(self, requirements, s9)>>)))))))))

\* WorkflowGenerator.generate: the returned graph, or the exception; u uuid4
\* values were drawn before the call
generate(self, requirements, conversation, u) ==
    With(generate_locals(self, requirements, conversation),
         LAMBDA end :
           IF end.raised
           THEN [raised |-> TRUE, exception |-> end.exception]
           ELSE [raised |-> FALSE,
                 workflow |->
                     [name |-> _generate_workflow_name(requirements, conversation),
                      nodes |-> WithUuids(end.locals.nodes, u),
                      connections |-> end.locals.connections,
                      active |-> FALSE,
                      settings |-> [executionOrder |-> "v1"],
                      meta |-> [generatedBy |-> "n8n-flow-generator", version |-> "2.0",
                                complexity |-> calculate_complexity(requirements),
                                nodeCount |-> Len(end.locals.nodes)]]])

\* the instance after a call whose layout cursor ended at `position`: the
\* cursor is kept on the instance
BuilderAfter_Cursor(self, position) ==
    [self EXCEPT !.position_x = position[1]]

\* the instance after a call: generate assigns no attribute
BuilderAfter(self, position) == self

-----------------------------------------------------------------------------
(* Calls of WorkflowGenerator.generate on the one builder instance.         *)

MaxCalls == 3

\* requirements records, among them what LLMService builds from a request
CallRequirements ==
    { EmptyDict,
      [trigger |-> "webhook", needs_validation |-> TRUE, needs_duplicate_check |-> TRUE,
       needs_error_handling |-> TRUE, needs_scoring |-> TRUE, has_branching |-> TRUE,
       needs_logging |-> TRUE, needs_notification |-> PyBool(TRUE),
       outputs |-> <<"email", "slack">>],
      [trigger |-> "schedule", schedule_frequency |-> "day", needs_auth |-> TRUE,
       outputs |-> <<"slack">>, needs_notification |-> PyBool(FALSE)],
      [trigger |-> "email", outputs |-> <<"database">>, database |-> "mysql",
       needs_logging |-> TRUE, needs_duplicate_check |-> TRUE],
      [trigger |-> "cron", outputs |-> <<"webhook">>, needs_error_handling |-> TRUE,
       needs_error_alerts |-> TRUE],
      [trigger |-> "webhook", needs_notification |-> PyBool(TRUE), outputs |-> <<"email">>],
      [trigger |-> "webhook", needs_error_handling |-> TRUE, outputs |-> <<>>],
      [needs_notification |-> PyStr("yes"), outputs |-> <<"email">>],
      [needs_notification |-> PyStr("send a notification"), outputs |-> <<"email">>,
       webhook_path |-> "leads"],
      [num_outputs |-> 5, has_loops |-> TRUE, needs_retry_logic |-> TRUE,
       needs_transformation |-> TRUE] }

\* a requirements record from a choice of its keys: the trigger kind, the
\* flags that are set, the notification value and the output list (each of
\* the three None when the key is absent)
Requirements(trigger, flags, notification, outputs) ==
    [k \in flags \cup (IF trigger = None THEN {} ELSE {"trigger"})
                 \cup (IF notification = None THEN {} ELSE {"needs_notification"})
                 \cup (IF outputs = None THEN {} ELSE {"outputs"}) |->
        CASE k = "trigger" -> trigger[1]
          [] k = "needs_notification" -> notification[1]
          [] k = "outputs" -> outputs[1]
          [] OTHER -> TRUE]

TriggerKinds == { "webhook", "schedule", "email", "cron" }

FeatureFlags ==
    { "needs_auth", "needs_validation", "needs_duplicate_check", "needs_scoring",
      "has_branching", "needs_logging", "needs_error_handling", "needs_error_alerts" }

OutputLists ==
    { <<>>, <<"email">>, <<"slack">>, <<"database">>, <<"webhook">>, <<"email", "slack">> }

\* every combination of trigger kind, feature flags, notification value and
\* output list
AllRequirements ==
    { Requirements(trigger, flags, notification, outputs) :
        trigger \in {None} \cup { Some(t) : t \in TriggerKinds },
        flags \in SUBSET FeatureFlags,
        notification \in { None, Some(PyBool(TRUE)), Some(PyStr("send a notification")) },
        outputs \in {None} \cup { Some(o) : o \in OutputLists } }

\* generate(requirements) is called on the instance and ends
BuilderCall(requirements) ==
    \E end \in { generate_locals(wgen, requirements, None) } :
      /\ bcalls' = Append(bcalls, [requirements |-> requirements,
                                   outcome |-> generate(wgen, requirements, None, buuids),
                                   stages |-> StageLocals(wgen, requirements)])
      /\ buuids' = buuids + Drawn(end.locals.nodes)
      /\ wgen' = BuilderAfter(wgen, end.locals.position)

\* one call of generate(requirements) on the instance
BuilderGenerate ==
    /\ Len(bcalls) < MaxCalls
    /\ \E requirements \in CallRequirements : BuilderCall(requirements)

\* the first call of generate on the instance, with any requirements record
BuilderGenerateAny ==
    /\ bcalls = <<>>
    /\ \E requirements \in AllRequirements : BuilderCall(requirements)

BuildNext ==
    BuilderGenerate /\ PipeIdle /\ ValIdle /\ RepIdle
                    /\ UNCHANGED <<nodeVars, scoreVars, concVars>>

BuildAnyNext ==
    BuilderGenerateAny /\ PipeIdle /\ ValIdle /\ RepIdle
                       /\ UNCHANGED <<nodeVars, scoreVars, concVars>>

BuildFixed ==
    /\ wgen = BuilderInit
    /\ bcalls = <<>>
    /\ buuids = 0

UnitFixed == NodeFixed /\ ScoreFixed /\ ConcFixed /\ BuildFixed

-----------------------------------------------------------------------------
(* Specifications *)

\* a pipeline run; no graph is handed to the structural validator
Init == PipeInit /\ ValFixed /\ RepFixed /\ UnitFixed

Next == PipeNext

Spec == Init /\ [][Next]_vars

\* the run is never preempted for good: generate is a synchronous call
FairSpec == Spec /\ WF_vars(Next)

\* graphs handed to the structural validator; no pipeline run
InitVal ==
    /\ PipeInit
    /\ complexity = "standard"
    /\ ValInit
    /\ RepFixed
    /\ UnitFixed

NextVal == ValNext

SpecVal == InitVal /\ [][NextVal]_vars

\* repeated repair of one graph; no pipeline run (the tier is an argument)
InitRep == PipeInit /\ ValFixed /\ RepInit /\ UnitFixed

NextRep == RepNext

SpecRep == InitRep /\ [][NextRep]_vars

\* single nodes handed to validate_node
InitNode ==
    /\ PipeInit /\ complexity = "standard" /\ ValFixed /\ RepFixed
    /\ NodeInit /\ ScoreFixed /\ ConcFixed /\ BuildFixed

NextNode == NodeNext

SpecNode == InitNode /\ [][NextNode]_vars

\* graphs handed to the quality scorer
InitScore ==
    /\ PipeInit /\ complexity = "standard" /\ ValFixed /\ RepFixed
    /\ NodeFixed /\ ScoreInit /\ ConcFixed /\ BuildFixed

NextScore == ScoreNext

SpecScore == InitScore /\ [][NextScore]_vars

\* two interleaved calls of EnhancedWorkflowGenerator.generate
InitConc ==
    /\ PipeInit /\ complexity = "standard" /\ ValFixed /\ RepFixed
    /\ NodeFixed /\ ScoreFixed /\ ConcInit /\ BuildFixed

NextConc == ConcNext

SpecConc == InitConc /\ [][NextConc]_vars

\* calls of WorkflowGenerator.generate on one builder instance
InitBuild ==
    /\ PipeInit /\ complexity = "standard" /\ ValFixed /\ RepFixed
    /\ NodeFixed /\ ScoreFixed /\ ConcFixed /\ BuildFixed

NextBuild == BuildNext

SpecBuild == InitBuild /\ [][NextBuild]_vars

\* one call of WorkflowGenerator.generate, over all requirements records
NextBuildAny == BuildAnyNext

SpecBuildAny == InitBuild /\ [][NextBuildAny]_vars

-----------------------------------------------------------------------------
(* Properties of a pipeline run (Spec) *)

Running == { "Seeding", "AwaitingCandidate", "Repairing", "Scoring" }

\* the attempts of the run that were scored
Scored == { i \in 1..Len(history) : history[i].score # None }

ScoreOf(i) == history[i].score[1]

NoCandidateSoFar == \A i \in 1..Len(history) : ~history[i].candidate

\* C1: when the run ends Exhausted and some attempt yielded a candidate, the
\* returned graph is not null, is a repaired candidate of the run whose score
\* is the maximum over the scored attempts, and the returned score is that score.
C1_ExhaustedReturnsBest ==
    (pc = "Exhausted" /\ \E i \in 1..Len(history) : history[i].candidate) =>
        /\ result[1].workflow # None
        /\ \E i \in Scored :
             /\ history[i].graph = result[1].workflow
             /\ \A j \in Scored : ScoreOf(j) <= ScoreOf(i)
             /\ result[1].quality_score = ScoreOf(i)

\* C2: generate never lets an exception through: whatever the collaborator
\* answers, a run that is over has returned a result object.
C2_AlwaysReturnsResult ==
    pc \notin Running => (pc # "Raised" /\ result # None)

\* C3: an attempt scored at or above 80 is the last thing of the run, which is
\* then Accepted and returns that attempt's graph, score and attempt number,
\* with no synthesis request after it; and a run is Accepted only that way.
C3_AcceptedIffFirstPassing ==
    /\ \A i \in Scored :
         ScoreOf(i) >= 80 => (i = Len(history) /\ pc = "Accepted")
    /\ pc = "Accepted" =>
         LET n == Len(history)
         IN  /\ n \in Scored
             /\ ScoreOf(n) >= 80
             /\ \A i \in Scored \ {n} : ScoreOf(i) < 80
             /\ result[1].workflow = history[n].graph
             /\ result[1].quality_score = ScoreOf(n)
             /\ result[1].attempt = n
             /\ requests = n

\* C3 witness: a run accepted in its second or third attempt
C3_Witness ==
    /\ pc = "Accepted"
    /\ Len(history) >= 2
    /\ result[1].attempt = Len(history)

\* C4: when no attempt yields a candidate, the run makes exactly 3 synthesis
\* requests and ends Exhausted with a null graph, score 0 and 3 attempts used.
C4_NoCandidateExhausts ==
    (NoCandidateSoFar /\ pc \in {"AwaitingCandidate", "Exhausted"}) =>
        /\ requests = Len(history)
        /\ requests <= 3
        /\ (pc = "Exhausted" =>
              /\ requests = 3
              /\ result[1].workflow = None
              /\ result[1].quality_score = 0
              /\ result[1].attempts = 3)
        /\ (requests = 3 /\ pc = "AwaitingCandidate" => attempt = max_attempts)

\* C4 witness: three requests without a candidate, and the run is over
C4_Witness ==
    /\ pc = "Exhausted"
    /\ Len(history) = 3
    /\ NoCandidateSoFar

\* the attempt count the result reports
ReportedAttempts ==
    IF Has(result[1], "attempt") THEN result[1].attempt ELSE result[1].attempts

\* C5: every request consumes one attempt, so at most max_attempts requests
\* are made, the run ends Accepted or Exhausted, and the attempt count it
\* reports is the number of requests made.
C5_BoundedAndEndsAcceptedOrExhausted ==
    /\ requests <= max_attempts
    /\ pc \notin Running =>
         /\ pc \in {"Accepted", "Exhausted"}
         /\ ReportedAttempts = requests

\* C6: QualityValidator.validate never raises: every repaired candidate
\* handed to it gets a score.
C6_ValidateNeverRaises ==
    \A i \in 1..Len(history) :
        history[i].candidate => (history[i].score # None /\ ~validate_raises(history[i].graph[1]))

-----------------------------------------------------------------------------
(* Properties of the structural validator (SpecVal) *)

\* the places of the connection entries: <<source key, port, group, index>>
ConnPositions(wf) ==
    LET conn == wf.connections
    IN  UNION { UNION { UNION { { <<s, p, g, j>> : j \in 1..Len(conn[s][p][g]) } :
                                g \in 1..Len(conn[s][p]) } :
                        p \in DOMAIN conn[s] } :
                s \in DOMAIN conn }

TargetAt(wf, pos) == wf.connections[pos[1]][pos[2]][pos[3]][pos[4]].node

\* how many errors of a result carry this type and message
ErrorCount(res, type, message) ==
    Cardinality({ k \in 1..Len(res.errors) :
                    res.errors[k].type = type /\ res.errors[k].message = message })

ConnectionErrorCount(res) ==
    Cardinality({ k \in 1..Len(res.errors) : res.errors[k].type = "connection" })

MissingSources(wf) == DOMAIN wf.connections \ NodeNames(wf)

TargetNotFound(t) == <<"Connection target node not found: ", t>>

SourceNotFound(s) == <<"Connection source node not found: ", s>>

\* C7: a node of an unregistered type gets no error and one warning from
\* validate_node, and adding it (fresh name, no connections) to a graph that
\* validate_workflow found valid leaves the graph valid.
C7_UnknownTypeKeepsValid ==
    (vadded # None /\ vprev # None /\ vres # None) =>
        /\ validate_node(vadded[1]).valid
        /\ validate_node(vadded[1]).errors = <<>>
        /\ Len(validate_node(vadded[1]).warnings) = 1
        /\ (vprev[1].isValid => vres[1].isValid)

\* C9 as claimed: one target error per connection entry whose target is no
\* node, on any port and under any source key, one source error per source
\* key that is no node, and no connection error without a dangling reference.
C9_OneErrorPerDanglingEntry ==
    vres # None =>
        LET wf == vwf
            res == vres[1]
            dangling == { pos \in ConnPositions(wf) : TargetAt(wf, pos) \notin NodeNames(wf) }
        IN  /\ \A t \in { TargetAt(wf, pos) : pos \in ConnPositions(wf) } :
                 ErrorCount(res, "connection", TargetNotFound(t))
                   = Cardinality({ pos \in dangling : TargetAt(wf, pos) = t })
            /\ \A s \in DOMAIN wf.connections :
                 ErrorCount(res, "connection", SourceNotFound(s))
                   = IF s \in NodeNames(wf) THEN 0 ELSE 1
            /\ ConnectionErrorCount(res)
                 = Cardinality(dangling) + Cardinality(MissingSources(wf))

\* what validate_workflow does report: one target error, naming the target and
\* carrying the source,
\* per entry on the 'main' port of a source key that is a node whose target is
\* no node; one source error per source key that is no node (its entries are
\* not examined); no other connection error, hence none for a graph whose
\* connections all reference existing nodes.
MainEntriesOfExistingSourcesReported ==
    vres # None =>
        LET wf == vwf
            res == vres[1]
            examined == { pos \in ConnPositions(wf) :
                            pos[1] \in NodeNames(wf) /\ pos[2] = "main" }
            dangling == { pos \in examined : TargetAt(wf, pos) \notin NodeNames(wf) }
        IN  /\ \A t \in { TargetAt(wf, pos) : pos \in ConnPositions(wf) } :
                 ErrorCount(res, "connection", TargetNotFound(t))
                   = Cardinality({ pos \in dangling : TargetAt(wf, pos) = t })
            /\ \A k \in 1..Len(res.errors) :
                 \A t \in { TargetAt(wf, pos) : pos \in ConnPositions(wf) } :
                   res.errors[k].message = TargetNotFound(t) =>
                     \E pos \in dangling :
                        TargetAt(wf, pos) = t /\ res.errors[k].nodeId = Some(pos[1])
            /\ \A s \in DOMAIN wf.connections :
                 ErrorCount(res, "connection", SourceNotFound(s))
                   = IF s \in NodeNames(wf) THEN 0 ELSE 1
            /\ ConnectionErrorCount(res)
                 = Cardinality(dangling) + Cardinality(MissingSources(wf))

\* C11: validate_workflow never raises: a caller that hands it a graph, also a
\* graph with missing node fields, without nodes or without connection map,
\* gets a result with a list of findings, never an exception.
C11_NeverRaises ==
    /\ vexc = None
    /\ vres # None => {"errors", "warnings"} \subseteq DOMAIN vres[1]

\* the nodes whose name already occurred on an earlier node
RepeatedAt(wf) ==
    { i \in 1..Len(wf.nodes) : \E j \in 1..(i - 1) : wf.nodes[j].name = wf.nodes[i].name }

DuplicateError(node) ==
    ValidationError("node", <<"Duplicate node name: ", node.name>>, Some(node.id))

\* C10: validate_workflow reports a duplicate-name error for exactly the nodes
\* whose name occurred on an earlier node, and isValid is true exactly when
\* the list of structure, node, connection and duplicate-name errors is
\* empty, whatever the warnings.
C10_DuplicatesAndValidity ==
    vres # None =>
        LET res == vres[1]
            dups == { k \in 1..Len(res.errors) :
                        res.errors[k].message[1] = "Duplicate node name: " }
        IN  /\ \A i \in 1..Len(vwf.nodes) :
                 (i \in RepeatedAt(vwf))
                   <=> (\E k \in dups : res.errors[k] = DuplicateError(vwf.nodes[i]))
            /\ Cardinality(dups) = Cardinality(RepeatedAt(vwf))
            /\ res.isValid <=> (Len(res.errors) = 0)
            /\ Len(res.errors) = Len(VS_validate_structure(vwf)) + Len(VS_validate_nodes(vwf))
                                 + Len(VS_validate_connections(vwf)) + Cardinality(dups)
            /\ res.isValid =>
                 /\ Len(vwf.nodes) > 0
                 /\ RepeatedAt(vwf) = {}
                 /\ MissingSources(vwf) = {}

\* C10 witness: a validated graph in which a name is repeated; it carries
\* warnings too and is reported invalid
C10_Witness ==
    /\ vres # None
    /\ RepeatedAt(vwf) # {}
    /\ ~vres[1].isValid
    /\ Len(vres[1].warnings) > 0

-----------------------------------------------------------------------------
(* Properties of repeated repair (SpecRep) *)

\* every field the repair passes fill is there, every credential requirement
\* and recommended error policy is met, the notes reach the tier's target and
\* every node that needs an input has one
FullyPopulated(wf, c) ==
    /\ {"name", "nodes", "connections", "active", "settings"} \subseteq DOMAIN wf
    /\ \A i \in 1..Len(wf.nodes) :
         LET n == wf.nodes[i]
         IN  /\ {"id", "name", "type", "typeVersion", "position", "parameters"}
                  \subseteq DOMAIN n
             /\ requires_credentials(n.type) => HasProperCredentials(n)
             /\ (IsProcessable(n) /\ needs_error_handling(n.type)) =>
                  {"onError", "retryOnFail", "maxTries"} \subseteq DOMAIN n
    /\ CountSeq(wf.nodes, IsSticky) >= TargetNotes(c)
    /\ _check_connections(wf).passed

\* C8: a repair pass on a fully populated, fully connected graph changes
\* nothing, and a second pass on the output of a first pass changes nothing.
C8_RepairIdempotent ==
    /\ (rpasses >= 1 /\ FullyPopulated(rorig, complexity)) => rfirst[1] = rorig
    /\ rpasses >= 2 => rwf = rfirst[1]

-----------------------------------------------------------------------------
(* Properties of validate_node (SpecNode) *)

\* how often a message occurs in a list of messages
Occurrences(messages, m) == Cardinality({ i \in 1..Len(messages) : messages[i] = m })

\* the node has a binding under the credential kind its type expects
BoundUnderExactKind(node) ==
    /\ Has(node, "credentials")
    /\ get_credential_type(TypeOf(node)) \in DOMAIN node.credentials

\* C12: for a node of a registered type validate_node reports one error per
\* required parameter key that the bag lacks, one error when the bag is empty
\* although keys are required, one error when the type requires credentials and
\* the node has no binding under the exact kind, and nothing else as an error;
\* a missing recommended error policy gives a warning only; valid is true
\* exactly when there is no error.
C12_ValidateNodeRegistered ==
    (nres # None /\ TypeOf(nnode) \in RegisteredTypes) =>
        LET res == nres[1]
            schema == Schemas[TypeOf(nnode)]
            required == { schema.required[i] : i \in 1..Len(schema.required) }
            lacking == required \ DOMAIN nnode.parameters
            emptyBag == required # {} /\ DOMAIN nnode.parameters = {}
            unbound == schema.requires_credentials /\ ~BoundUnderExactKind(nnode)
            noPolicy == /\ Has(schema, "error_handling_recommended")
                        /\ schema.error_handling_recommended
                        /\ ~Has(nnode, "onError") /\ ~Has(nnode, "retryOnFail")
            credentialErrors ==
                Occurrences(res.errors, <<"Missing credentials configuration", "">>)
                + Occurrences(res.errors,
                              <<"Missing credential type: ", get_credential_type(TypeOf(nnode))>>)
        IN  /\ \A k \in required :
                 Occurrences(res.errors, <<"Missing required parameter: ", k>>)
                   = IF k \in lacking THEN 1 ELSE 0
            /\ Occurrences(res.errors,
                   <<"Parameters object is empty but required parameters are needed", "">>)
                 = IF emptyBag THEN 1 ELSE 0
            /\ credentialErrors = IF unbound THEN 1 ELSE 0
            /\ Len(res.errors) = Cardinality(lacking) + (IF emptyBag THEN 1 ELSE 0)
                                 + (IF unbound THEN 1 ELSE 0)
            /\ Len(res.warnings) = IF noPolicy THEN 1 ELSE 0
            /\ res.valid <=> (Len(res.errors) = 0)

\* C12 witness: a credential-requiring node with a foreign binding, an empty
\* bag and no error policy was validated: errors and a warning
C12_Witness ==
    /\ nres # None
    /\ requires_credentials(TypeOf(nnode))
    /\ Has(nnode, "credentials")
    /\ ~BoundUnderExactKind(nnode)
    /\ DOMAIN nnode.parameters = {}
    /\ Len(nres[1].errors) >= 3
    /\ Len(nres[1].warnings) = 1
    /\ ~nres[1].valid

-----------------------------------------------------------------------------
(* Claims about QualityValidator (SpecScore)                                *)

\* validate returned a result for the graph
Returned == sres # None /\ ~sres[1].raised

CheckWeight ==
    [node_count |-> 20, credentials |-> 15, parameters |-> 15, error_handling |-> 20,
     connections |-> 5, documentation |-> 10, flow_complexity |-> 15]

RECURSIVE SumScores(_, _)
SumScores(details, checks) ==
    IF checks = {} THEN 0
    ELSE LET k == CHOOSE x \in checks : TRUE
         IN  details[k].score + SumScores(details, checks \ {k})

\* C13: every result that validate returns has as its score the sum of the
\* seven check scores, each check score lies between 0 and the weight of its
\* check (20, 15, 15, 20, 5, 10, 15), so the score lies between 0 and 100, and
\* valid is true exactly when the score is at least 80.
C13_ScoreIsWeightedSum ==
    Returned =>
        LET r == sres[1]
        IN  /\ DOMAIN r.details = DOMAIN CheckWeight
            /\ \A k \in DOMAIN CheckWeight :
                   /\ r.details[k].max_score = CheckWeight[k]
                   /\ 0 <= r.details[k].score
                   /\ r.details[k].score <= CheckWeight[k]
            /\ r.score = SumScores(r.details, DOMAIN CheckWeight)
            /\ 0 <= r.score
            /\ r.score <= 100
            /\ r.valid <=> r.score >= 80

\* a valid result in which the flow complexity check scored and another check
\* stayed below its weight
C13_Witness ==
    /\ Returned
    /\ sres[1].valid
    /\ sres[1].details.flow_complexity.score > 0
    /\ sres[1].details.node_count.score < 20

\* a source node: a workflow entry point, of a kind the Graph Builder emits or
\* of a type named ...Trigger
IsEntryPoint(n) == TypeOf(n) \in BuilderTriggerTypes \/ EndsWithTrigger(TypeOf(n))

\* the names of the nodes that are neither a note nor an entry point and are
\* the target of no connection
WithoutInput(wf) ==
    LET nodes == NodesOf(wf)
    IN  { nodes[i].name :
            i \in { k \in 1..Len(nodes) :
                      /\ ~IsSticky(nodes[k])
                      /\ ~IsEntryPoint(nodes[k])
                      /\ \A c \in AllConns(ConnectionsOf(wf)) : c.node # nodes[k].name } }

\* C14: the connectivity check scores 5 exactly when every node that is neither
\* an annotation node nor an entry-point node is the target of a connection,
\* and 0 otherwise, and lists the names of the unconnected nodes; a graph whose
\* only node without an incoming connection is its entry node scores 5.
C14_ConnectivityScore ==
    Returned =>
        LET c == sres[1].details.connections
        IN  /\ c.score = (IF WithoutInput(sgraph) = {} THEN 5 ELSE 0)
            /\ c.unconnected_nodes = WithoutInput(sgraph)

\* what the code does: an entry point is a node whose type ends in 'Trigger'
NodesNeedingInputAreNonTriggers ==
    Returned =>
        LET c == sres[1].details.connections
            nodes == NodesOf(sgraph)
            unconnected ==
                { nodes[i].name :
                    i \in { k \in 1..Len(nodes) :
                              /\ ~IsSticky(nodes[k])
                              /\ ~EndsWithTrigger(TypeOf(nodes[k]))
                              /\ \A x \in AllConns(ConnectionsOf(sgraph)) :
                                    x.node # nodes[k].name } }
        IN  /\ c.score = (IF unconnected = {} THEN 5 ELSE 0)
            /\ c.unconnected_nodes = unconnected

\* the checks of a result that did not receive full credit
FailingChecks(r) ==
    { k \in DOMAIN r.details : r.details[k].score < r.details[k].max_score }

\* C15: for every result that validate produced, generate_feedback returns
\* without raising and emits exactly one instruction for each check that
\* failed (did not receive full credit) and none for a check that passed.
C15_OneItemPerFailingCheck ==
    (Returned /\ sfeedback # None) =>
        /\ ~sfeedback[1].raised
        /\ LET items == sfeedback[1].feedback
           IN  /\ Len(items) = Cardinality(FailingChecks(sres[1]))
               /\ { items[i].check : i \in 1..Len(items) } = FailingChecks(sres[1])

\* what the code does when it does not raise: one instruction per check whose
\* 'passed' flag is false
OneItemPerCheckNotPassed ==
    (Returned /\ sfeedback # None /\ ~sfeedback[1].raised) =>
        LET items == sfeedback[1].feedback
            notPassed == { k \in DOMAIN sres[1].details : ~sres[1].details[k].passed }
        IN  /\ Len(items) = Cardinality(notPassed)
            /\ { items[i].check : i \in 1..Len(items) } = notPassed

\* C16: giving one credential-requiring node that had no binding under the
\* credential kind of its type such a binding never lowers the credentials
\* score; a graph with no credential-requiring node scores the full 15.
C16_BindingNeverLowersCredentialScore ==
    /\ (Returned /\ sprev # None) =>
          sres[1].details.credentials.score >= sprev[1].details.credentials.score
    /\ (Returned /\ \A i \in 1..Len(NodesOf(sgraph)) :
                       ~requires_credentials(TypeOf(sgraph.nodes[i]))) =>
          sres[1].details.credentials.score = 15

\* a binding was added to a graph with several service nodes and the score rose
C16_Witness ==
    /\ Returned
    /\ sprev # None
    /\ sres[1].details.credentials.service_nodes >= 3
    /\ sres[1].details.credentials.score > sprev[1].details.credentials.score
    /\ sres[1].details.credentials.score < 15

\* the tier minima: the tiers light, standard and heavy are the complexity
\* strings 'simple', 'standard' and 'complex'
TierMinimum == [simple |-> 15, standard |-> 25, complex |-> 35]

NodeCountSteps(n) ==
    IF n < 10 THEN 0 ELSE IF n < 15 THEN 5 ELSE IF n < 25 THEN 10
    ELSE IF n < 35 THEN 15 ELSE 20

\* C17: the node-count check scores 0 below 10 nodes, 5 for 10-14, 10 for
\* 15-24, 15 for 25-34 and 20 from 35 on; it fails whenever the node count is
\* below the minimum of the tier (15, 25, 35), and the instruction emitted for
\* the failing check quotes the node count and that minimum.
C17_NodeCountStepsAndMinimum ==
    Returned =>
        LET c == sres[1].details.node_count
            n == Len(NodesOf(sgraph))
        IN  /\ c.node_count = n
            /\ c.score = NodeCountSteps(n)
            /\ stier \in DOMAIN TierMinimum =>
                  /\ c.passed <=> n >= TierMinimum[stier]
                  /\ (sfeedback # None /\ ~sfeedback[1].raised /\ n < TierMinimum[stier]) =>
                        /\ Len(sfeedback[1].feedback) >= 1
                        /\ sfeedback[1].feedback[1] =
                              [check |-> "node_count", has |-> n,
                               required |-> TierMinimum[stier]]

\* 5 nodes at the lowest tier: score 0, and the instruction names 15
C17_Witness ==
    /\ Returned
    /\ stier = "simple"
    /\ Len(NodesOf(sgraph)) = 5
    /\ sres[1].details.node_count.score = 0
    /\ sfeedback # None
    /\ ~sfeedback[1].raised
    /\ sfeedback[1].feedback[1].required = 15

\* every credential-requiring node carries the binding of its kind, no node
\* carries an error policy, and there is no note
BoundNoPolicyNoNote(wf) ==
    \A i \in 1..Len(NodesOf(wf)) :
        LET n == wf.nodes[i]
        IN  /\ requires_credentials(TypeOf(n)) => HasProperCredentials(n)
            /\ ~HasErrorHandling(n)
            /\ ~IsSticky(n)

\* C18: for a graph in which every credential-requiring node is correctly
\* bound, no node carries an error policy and there is no annotation node, the
\* credentials check scores 15 of 15, the error handling check 0 of 20 and the
\* documentation check 0 of 10, whatever the other checks score.
C18_ChecksIndependent ==
    (Returned /\ BoundNoPolicyNoNote(sgraph)) =>
        LET d == sres[1].details
        IN  /\ d.credentials.score = 15 /\ d.credentials.max_score = 15
            /\ d.error_handling.score = 0 /\ d.error_handling.max_score = 20
            /\ d.documentation.score = 0 /\ d.documentation.max_score = 10

\* the scenario: 20 nodes, 9 of them requiring credentials and all 9 bound
C18_Witness ==
    /\ Returned
    /\ BoundNoPolicyNoNote(sgraph)
    /\ Len(NodesOf(sgraph)) = 20
    /\ sres[1].details.credentials.service_nodes = 9
    /\ sres[1].details.credentials.with_credentials = 9
    /\ sres[1].details.flow_complexity.score = 15

-----------------------------------------------------------------------------
(* Claims about concurrent runs (SpecConc)                                  *)

Finished(run) == run.pc \in {"Accepted", "Exhausted", "Raised"}

RECURSIVE Alone(_, _)
\* the call run on its own from `run`, given the replies it still receives
Alone(run, replies) ==
    IF Finished(run) THEN run
    ELSE IF run.pc = "Repairing" THEN Alone(RunRepair(run), replies)
    ELSE IF run.pc = "Scoring" THEN Alone(RunScore(run, run.best_score), replies)
    ELSE IF run.attempt = max_attempts THEN RunReturnBest(run)
    ELSE IF replies = <<>> THEN run
    ELSE Alone(RunRequest(run, Head(replies)), Tail(replies))

\* a step changes the locals of one call and nothing that is shared
StepIsLocal ==
    /\ shared' = shared
    /\ \E r \in Runs : \A o \in Runs \ {r} : runs'[o] = runs[o]

-----------------------------------------------------------------------------
(* Properties of the Graph Builder (SpecBuild) *)

\* what two calls are compared on: the exception, or each node's name, type,
\* position and parameters, and the connections
Compared(outcome) ==
    IF outcome.raised THEN outcome
    ELSE [raised |-> FALSE,
          nodes |-> [i \in 1..Len(outcome.workflow.nodes) |->
                        [name |-> outcome.workflow.nodes[i].name,
                         type |-> outcome.workflow.nodes[i].type,
                         position |-> outcome.workflow.nodes[i].position,
                         parameters |-> outcome.workflow.nodes[i].parameters]],
          connections |-> outcome.workflow.connections]

C21_GenerateNeverRaises ==
    \A i \in 1..Len(bcalls) : ~bcalls[i].outcome.raised

\* what the k-th repair stage does to the graph, by the name of the stage
NamedStage(k, wf, c, u) ==
    CASE k = 1 -> _fix_structure(wf, u)           \* structural defaults
      [] k = 2 -> wf                              \* structural validation, log only
      [] k = 3 -> _inject_credentials(wf)         \* credential injection
      [] k = 4 -> _add_error_handling(wf)         \* error-policy injection
      [] k = 5 -> _add_documentation(wf, c, u)    \* annotation insertion
      [] k = 6 -> _validate_connections(wf)       \* connection-map check

\* a step that changes the stage counter is the next stage in order, applied
\* to the graph under repair, or the start of a new attempt; an attempt is
\* scored only from the state in which all stages are done
StagesInOrder ==
    /\ stage' # stage =>
         \/ /\ pc = "Repairing"
            /\ stage' = stage + 1
            /\ stage' <= NumStages
            /\ workflow' = Some(NamedStage(stage', workflow[1], complexity, uuids))
         \/ /\ pc = "AwaitingCandidate"
            /\ stage' = 0
    /\ (pc = "Repairing" /\ pc' # "Repairing") => (stage' = NumStages /\ pc' = "Scoring")
    /\ (pc = "Repairing" /\ stage' = stage) => UNCHANGED workflow
    /\ (Len(history') > Len(history) /\ history'[Len(history')].candidate) =>
         (pc = "Scoring" /\ stage = NumStages
          /\ history'[Len(history')].graph = workflow)

\* C22: in an attempt that yields a candidate the six repair stages run once
\* each, in the order structural defaults, structural validation, credential
\* injection, error-policy injection, annotation insertion, connection-map
\* check, and scoring starts only after the last one; an attempt without a
\* candidate runs no stage and is not scored; a graph the run returns has
\* been through all six stages.
C22_SixStagesThenScoring ==
    /\ [](/\ pc = "Scoring" => stage = NumStages
          /\ pc = "Repairing" => stage < NumStages
          /\ \A i \in 1..Len(history) :
               IF history[i].candidate
               THEN history[i].stages = NumStages
               ELSE /\ history[i].stages = 0
                    /\ history[i].graph = None
                    /\ history[i].score = None
          /\ (result # None /\ result[1].workflow # None) =>
               \E i \in 1..Len(history) :
                 /\ history[i].stages = NumStages
                 /\ history[i].graph = result[1].workflow)
    /\ [][StagesInOrder]_vars

\* a run that ended Exhausted with a graph: one attempt had no candidate, one
\* had a candidate to which the repair added nodes
C22_Witness ==
    /\ pc = "Exhausted"
    /\ result[1].workflow # None
    /\ \E i \in 1..Len(history) : ~history[i].candidate
    /\ \E i \in 1..Len(history) :
         /\ history[i].candidate
         /\ history[i].graph = result[1].workflow
         /\ \E j \in 1..Len(NodesOf(history[i].graph[1])) :
              IsSticky(NodesOf(history[i].graph[1])[j])

-----------------------------------------------------------------------------
(* Properties of the repair pass (SpecRep): the graph rorig and what the    *)
(* first call of _validate_and_refine returned for it, rfirst               *)

\* C23: after the repair pass every node whose type requires credentials has
\* a binding under the exact credential kind its type expects, whatever
\* credential bag the node had before.
C23_RepairBindsCredentials ==
    rpasses >= 1 =>
        \A i \in 1..Len(NodesOf(rfirst[1])) :
            requires_credentials(TypeOf(NodesOf(rfirst[1])[i]))
                => BoundUnderExactKind(NodesOf(rfirst[1])[i])

\* C24: after the repair pass the graph holds at least the documentation
\* minimum of annotation nodes (5, and 8 for the tier 'complex'), and a graph
\* that held the minimum before gets none added.
C24_RepairReachesNoteMinimum ==
    rpasses >= 1 =>
        /\ CountSeq(NodesOf(rfirst[1]), IsSticky) >= TargetNotes(complexity)
        /\ CountSeq(NodesOf(rorig), IsSticky) >= TargetNotes(complexity)
             => CountSeq(NodesOf(rfirst[1]), IsSticky) = CountSeq(NodesOf(rorig), IsSticky)

\* every node has a display name and no two nodes have the same
UniqueNames(wf) ==
    /\ \A i \in 1..Len(NodesOf(wf)) : Has(NodesOf(wf)[i], "name")
    /\ \A i, j \in 1..Len(NodesOf(wf)) :
         i # j => NodesOf(wf)[i].name # NodesOf(wf)[j].name

\* C25: when the node names of a candidate are pairwise distinct, the node
\* names of the repaired graph, the added annotation nodes included, are
\* pairwise distinct.
C25_RepairKeepsNamesUnique ==
    (rpasses >= 1 /\ UniqueNames(rorig)) => UniqueNames(rfirst[1])

PolicyKeys == { "onError", "retryOnFail", "maxTries" }

\* the node is neither a source nor an annotation node and its type
\* recommends error handling
PolicyRecommended(n) ==
    /\ ~IsEntryPoint(n)
    /\ ~IsSticky(n)
    /\ needs_error_handling(TypeOf(n))

\* C26: after the repair pass every node that is neither a source nor an
\* annotation node and whose type recommends error handling has an on-error
\* action, a retry flag and a retry count, and keeps the values it had; every
\* other node, the added annotation nodes included, has the error-policy
\* fields it had before and no other.
C26_RepairAddsErrorPolicies ==
    rpasses >= 1 =>
        \A i \in 1..Len(NodesOf(rfirst[1])) :
            LET after == NodesOf(rfirst[1])[i]
                before == IF i <= Len(NodesOf(rorig)) THEN NodesOf(rorig)[i] ELSE EmptyDict
            IN  /\ \A k \in PolicyKeys \cap DOMAIN before :
                     k \in DOMAIN after /\ after[k] = before[k]
                /\ IF PolicyRecommended(after)
                   THEN PolicyKeys \subseteq DOMAIN after
                   ELSE PolicyKeys \cap DOMAIN after = PolicyKeys \cap DOMAIN before

\* the repaired flow whose request kept 'stopWorkflow' and no retry and got a
\* retry count, whose service node got the defaults next to its own count,
\* and whose webhook entry, transformation and annotation nodes got nothing
C26_Witness ==
    /\ rpasses >= 1
    /\ rorig = CandPolicies
    /\ NodesOf(rfirst[1])[2].onError = "stopWorkflow"
    /\ NodesOf(rfirst[1])[2].retryOnFail = FALSE
    /\ NodesOf(rfirst[1])[2].maxTries = 3
    /\ NodesOf(rfirst[1])[3].onError = "continueRegularOutput"
    /\ NodesOf(rfirst[1])[3].maxTries = 5
    /\ PolicyKeys \cap DOMAIN NodesOf(rfirst[1])[1] = {}
    /\ PolicyKeys \cap DOMAIN NodesOf(rfirst[1])[4] = {}
    /\ Len(NodesOf(rfirst[1])) > 5

-----------------------------------------------------------------------------
(* Properties of the instruction of a pipeline run (Spec) *)

\* the instruction p is contained in the instruction q: the same text
\* followed by zero or more feedback blocks
InstructionContains(q, p) ==
    /\ q.complexity = p.complexity
    /\ q.required_node_count = p.required_node_count
    /\ Len(q.feedback) >= Len(p.feedback)
    /\ SubSeq(q.feedback, 1, Len(p.feedback)) = p.feedback

\* the step that ends an attempt: what it does to the instruction
FeedbackFolded ==
    (prompt # None /\ Len(history') > Len(history)) =>
        LET entry == history'[Len(history')]
        IN  IF /\ entry.candidate
               /\ quality_result' # None
               /\ quality_result'[1].score < min_quality_score
               /\ attempt < max_attempts - 1
            THEN /\ pc' = "AwaitingCandidate"
                 /\ attempt' = attempt + 1
                 /\ prompt' = Some(_update_prompt_with_feedback(
                                     prompt[1], generate_feedback(quality_result'[1])))
            ELSE prompt' = prompt

\* C27: after an attempt that was scored below the threshold and is not the
\* last one, the feedback derived from its score is appended to the
\* instruction before the next request; after the last attempt and after an
\* attempt without a candidate the instruction is unchanged; the instruction
\* of a later attempt contains the instruction of every earlier one.
C27_FeedbackGrowsInstruction ==
    /\ [][FeedbackFolded]_vars
    /\ [][prompt # None => InstructionContains(prompt'[1], prompt[1])]_vars

-----------------------------------------------------------------------------
(* Properties of the graphs the Graph Builder returns (SpecBuildAny) *)

\* the calls that returned a graph
ReturnedCalls == { i \in 1..Len(bcalls) : ~bcalls[i].outcome.raised }

\* the node names a connection map leads to from the output ports of `from`
TargetsOf(connections, from) ==
    IF from \in DOMAIN connections
    THEN UNION { UNION { { connections[from][p][g][j].node :
                             j \in 1..Len(connections[from][p][g]) } :
                         g \in 1..Len(connections[from][p]) } :
                 p \in DOMAIN connections[from] }
    ELSE {}

\* stage k put nodes into the graph
Included(stages, k) ==
    k = 1 \/ Len(stages[k].nodes) > Len(stages[k - 1].nodes)

\* the first node stage k put into the graph
EntryNode(stages, k) ==
    stages[k].nodes[IF k = 1 THEN 1 ELSE Len(stages[k - 1].nodes) + 1]

\* the main-line stages in their fixed order: the names their entry node can
\* have, and the name of the exit node where it is not the entry node
StageEntryNames ==
    << { "Webhook Trigger", "Schedule Trigger", "Email Trigger", "Manual Trigger" },
       { "Validate API Key" },
       { "Validate Data" },
       { "Check for Duplicates" },
       { "Calculate Score" },
       { "Route by Priority" },
       { "Send Email", "Post to Slack", "Save to Database", "Send to Webhook" },
       { "Log to Database" },
       { "Notify Slack" } >>

StageExitNames ==
    [k \in 1..8 |-> CASE k = 3 -> { "Is Valid?" }
                      [] k = 4 -> { "Is New Record?" }
                      [] k = 6 -> { "Merge Paths" }
                      [] OTHER -> StageEntryNames[k]]

\* the names of the nodes stages a..b put into the graph
NamesOfStages(stages, a, b) ==
    { stages[b].nodes[i].name :
        i \in (IF a = 1 THEN 1 ELSE Len(stages[a - 1].nodes) + 1)..Len(stages[b].nodes) }

\* C28: in every returned graph the main-line stages form a chain in the
\* order trigger, authentication, validation split, duplicate check, scoring,
\* routing merge, action, audit log, notification: the entry node of an
\* included stage has a connection from the exit node of the stage included
\* before it, the x coordinate of the layout cursor is larger after the stage
\* than before it, and no connection leads from the error-handling sub-graph
\* to a main-line node or back.
C28_MainLineIsAChain ==
    \A c \in ReturnedCalls :
        LET stages == bcalls[c].stages
            wf == bcalls[c].outcome.workflow
        IN  /\ [i \in 1..Len(wf.nodes) |-> wf.nodes[i].name]
                 = [i \in 1..Len(stages[10].nodes) |-> stages[10].nodes[i].name]
            /\ wf.connections = stages[10].connections
            /\ \A k \in 1..9 :
                 Included(stages, k) =>
                   /\ EntryNode(stages, k).name \in StageEntryNames[k]
                   /\ k < 9 => stages[k].last_node.name \in StageExitNames[k]
                   /\ k > 1 =>
                        /\ EntryNode(stages, k).name
                             \in TargetsOf(wf.connections, stages[k - 1].last_node.name)
                        /\ stages[k].position[1] > stages[k - 1].position[1]
            /\ \A k \in 2..9 :
                 ~Included(stages, k) => stages[k].last_node = stages[k - 1].last_node
            /\ \A from \in DOMAIN wf.connections :
                 /\ from \in NamesOfStages(stages, 10, 10) =>
                      TargetsOf(wf.connections, from) \subseteq NamesOfStages(stages, 10, 10)
                 /\ from \in NamesOfStages(stages, 1, 9) =>
                      TargetsOf(wf.connections, from) \subseteq NamesOfStages(stages, 1, 9)

\* a returned graph with all nine main-line stages and the error-handling
\* sub-graph
C28_Witness ==
    /\ ReturnedCalls = {1}
    /\ \A k \in 1..10 : Included(bcalls[1].stages, k)
    /\ bcalls[1].stages[9].position[1] > 2000
    /\ "Error Trigger" \in DOMAIN bcalls[1].outcome.workflow.connections

-----------------------------------------------------------------------------
(* The frame of the repair pass (SpecRep) *)

\* C29: the repair pass only adds: every node of the candidate is in the
\* repaired graph at the same place with every field it had, at its value;
\* every field of the candidate other than the node list keeps its value,
\* the connections among them; the node count does not decrease.
C29_RepairOnlyAdds ==
    rpasses >= 1 =>
        /\ Len(NodesOf(rfirst[1])) >= Len(NodesOf(rorig))
        /\ \A i \in 1..Len(NodesOf(rorig)) :
             \A k \in DOMAIN NodesOf(rorig)[i] :
                /\ k \in DOMAIN NodesOf(rfirst[1])[i]
                /\ NodesOf(rfirst[1])[i][k] = NodesOf(rorig)[i][k]
        /\ \A k \in DOMAIN rorig \ {"nodes"} :
             k \in DOMAIN rfirst[1] /\ rfirst[1][k] = rorig[k]

\* a connected candidate whose nodes had ids: the repair gave a node new
\* fields and added annotation nodes
C29_Witness ==
    /\ rpasses >= 1
    /\ Has(rorig, "connections")
    /\ rorig.connections # EmptyDict
    /\ Len(NodesOf(rorig)) >= 4
    /\ Has(NodesOf(rorig)[1], "id")
    /\ Len(NodesOf(rfirst[1])) > Len(NodesOf(rorig))
    /\ \E i \in 1..Len(NodesOf(rorig)) :
         DOMAIN NodesOf(rfirst[1])[i] # DOMAIN NodesOf(rorig)[i]

\* C30: every graph the Graph Builder returns satisfies the data-model
\* invariants: no two nodes have the same display name, every connection
\* source key and every connection target is the name of a node of the
\* graph, and the reported node count is the number of nodes.
C30_ReturnedGraphWellFormed ==
    \A c \in ReturnedCalls :
        LET wf == bcalls[c].outcome.workflow
            names == { wf.nodes[i].name : i \in 1..Len(wf.nodes) }
        IN  /\ \A i, j \in 1..Len(wf.nodes) :
                 i # j => wf.nodes[i].name # wf.nodes[j].name
            /\ \A from \in DOMAIN wf.connections :
                 /\ from \in names
                 /\ TargetsOf(wf.connections, from) \subseteq names
            /\ wf.meta.nodeCount = Len(wf.nodes)

\* a returned graph of seventeen nodes or more: two IF flows, the three-way
\* routing with its merge, two Slack nodes and the error-handling sub-graph
C30_Witness ==
    /\ ReturnedCalls = {1}
    /\ bcalls[1].outcome.workflow.meta.nodeCount >= 17
    /\ Len(bcalls[1].outcome.workflow.connections["Is Valid?"].main) = 2
    /\ Len(bcalls[1].outcome.workflow.connections["Route by Priority"].main) = 3
    /\ "Post to Slack" \in DOMAIN bcalls[1].outcome.workflow.connections
    /\ "Notify Slack" \in TargetsOf(bcalls[1].outcome.workflow.connections, "Log to Database")
    /\ "Alert Admin" \in TargetsOf(bcalls[1].outcome.workflow.connections, "Log Error Details")

=============================================================================
